---- MODULE Spec2Model ----
(***************************************************************************)
(* Hierarchical multi-map path resolver of indoor-nav                      *)
(* (src/src/lib/pathfinder.ts, src/src/types/navigation.ts) together with  *)
(* the map service it awaits (mapService: getMap, getAllMaps).             *)
(*                                                                         *)
(* Three specifications share the variables:                               *)
(*   SpecLocal  findLocalPath / calculatePathDistance on one edited map    *)
(*   SpecChain  buildMapMetaGraph / findMapChain on an edited collection   *)
(*   Spec       generateNavigationPath, one step per await, and            *)
(*              validateNavigationResult on what it returned               *)
(*   SpecValidate  validateNavigationResult on results built by hand       *)
(***************************************************************************)
EXTENDS Integers, Sequences, FiniteSets, TLC

VARIABLES
    store,      \* the map collection behind getMap/getAllMaps: map id -> MapData
    fn,         \* pure-function specs: name of the last function called
    args,       \* pure-function specs: its arguments
    ret,        \* pure-function specs: what it returned or threw
    pc,         \* generateNavigationPath: position of the request
    req,        \* its four arguments
    mapChain,   \* const mapChain
    hop,        \* the loop index i (1-based here)
    segments,   \* const segments
    entry,      \* let currentEntryNodeId
    thrown,     \* the error thrown inside the try block, if any
    result,     \* the NavigationResult the promise resolved to
    escaped,    \* an error that left generateNavigationPath uncaught
    calls,      \* collaborator calls issued so far, in order
    running,    \* two requests: the one whose continuation runs (1 or 2)
    other,      \* two requests: the locals of the request that is suspended
    writes,     \* maps written by an editor while a request was under way
    bfs,        \* findMapChain step by step: its locals
    ui,         \* IndoorNavigation: the component's state, props and fetches
    cached,     \* db.ts: the module-level cache { conn, promise }
    attempts,   \* db.ts: the mongoose.connect promises created so far
    callers     \* db.ts: the dbConnect and disconnect calls under way

vars == <<store, fn, args, ret, pc, req, mapChain, hop, segments, entry,
          thrown, result, escaped, calls, running, other, writes, bfs, ui,
          cached, attempts, callers>>

\* the variables of the specifications that follow Spec
auxVars == <<running, other, writes, bfs, ui, cached, attempts, callers>>

libVars == <<fn, args, ret>>
navVars == <<pc, req, mapChain, hop, segments, entry, thrown, result, escaped,
            calls>>

(***************************************************************************)
(* Bounds of the model                                                     *)
(***************************************************************************)
MaxEdges == 3
MaxGateways == 3
MaxSegments == 2

MapIds == {"M1", "M2", "M3"}
\* the order in which getAllMaps lists the maps
IdOrder == {<<"M1", "M2">>, <<"M1", "M3">>, <<"M2", "M3">>}
NoSuchMap == "M9"
NodeIds == {"a", "b", "c"}
NoSuchNode == "z"
Weights == {0, 1, 2}

(***************************************************************************)
(* JavaScript values                                                       *)
(***************************************************************************)
\* undefined / an optional field that is absent, and a present one
None == <<>>
Some(x) == <<x>>
\* null in the predecessor map
Null == "<null>"
\* Number.POSITIVE_INFINITY; every finite distance is >= 0
Infinity == -1

LessThan(x, y) ==
    IF x = Infinity THEN FALSE
    ELSE IF y = Infinity THEN TRUE
    ELSE x < y

\* String.prototype.trim on the strings of the model
Trim(s) == IF s = " " THEN "" ELSE s

\* Array.prototype.includes / the set of an array's elements
Range(s) == {s[k] : k \in 1..Len(s)}

\* Map.prototype.set on a function with a growing domain
MapSet(f, k, v) == (k :> v) @@ f

\* a returned value and a thrown error
Return(v) == [tag |-> "return", value |-> v]
Throw(code, message) ==
    [tag |-> "throw", name |-> "PathfinderError", code |-> code, message |-> message]
ThrowOther(message) ==
    [tag |-> "throw", name |-> "Error", code |-> "", message |-> message]

(***************************************************************************)
(* src/types/navigation.ts                                                 *)
(***************************************************************************)
Node(id, type, gatewayConfig) ==
    [id |-> id, type |-> type, gatewayConfig |-> gatewayConfig]
GatewayConfig(targetMapId, targetNodeId) ==
    [targetMapId |-> targetMapId, targetNodeId |-> targetNodeId]
Edge(targetNodeId, weight) == [targetNodeId |-> targetNodeId, weight |-> weight]
MapData(id, nodes, adjacencyList) ==
    [id |-> id, nodes |-> nodes, adjacencyList |-> adjacencyList]

\* mutant of isGatewayNode: only the presence of the descriptor is tested
isGatewayNode_PresenceOnly(node) ==
    node.type = "GATEWAY" /\ node.gatewayConfig # None

isGatewayNode(node) ==
    /\ node.type = "GATEWAY"
    /\ node.gatewayConfig # None
    /\ Trim(node.gatewayConfig[1].targetMapId) # ""
    /\ Trim(node.gatewayConfig[1].targetNodeId) # ""

\* mutant of EdgesOf: the edges into id are walked backwards as well
EdgesOf_Undirected(mapData, id) ==
    LET back == {u \in DOMAIN mapData.adjacencyList :
                   \E k \in 1..Len(mapData.adjacencyList[u]) :
                      mapData.adjacencyList[u][k].targetNodeId = id}
        RECURSIVE Reversed(_)
        Reversed(S) == IF S = {} THEN <<>>
                       ELSE LET u == CHOOSE x \in S : TRUE
                            IN <<[targetNodeId |-> u, weight |-> 1]>> \o Reversed(S \ {u})
    IN (IF id \in DOMAIN mapData.adjacencyList THEN mapData.adjacencyList[id] ELSE <<>>)
       \o Reversed(back)

\* mapData.adjacencyList[id] ?? []
EdgesOf(mapData, id) ==
    IF id \in DOMAIN mapData.adjacencyList THEN mapData.adjacencyList[id] ELSE <<>>

\* new Set(mapData.nodes.map((n) => n.id))
NodeIdSet(mapData) == {mapData.nodes[k].id : k \in 1..Len(mapData.nodes)}

(***************************************************************************)
(* Local pathfinding: findLocalPath (Dijkstra)                             *)
(***************************************************************************)
\* distances.get(id) ?? Infinity
GetDistance(distances, id) ==
    IF id \in DOMAIN distances THEN distances[id] ELSE Infinity

\* previous.get(id) ?? null
GetPrevious(previous, id) ==
    IF id \in DOMAIN previous THEN previous[id] ELSE Null

\* queue.sort((a, b) => a.distance - b.distance): a stable sort
InsertByDistance(sorted, item) ==
    LET before == {k \in 0..Len(sorted) :
                     \A j \in 1..k : sorted[j].distance <= item.distance}
        at == CHOOSE k \in before : \A j \in before : j <= k
    IN SubSeq(sorted, 1, at) \o <<item>> \o SubSeq(sorted, at + 1, Len(sorted))

RECURSIVE SortByDistance(_)
SortByDistance(queue) ==
    IF queue = <<>> THEN <<>>
    ELSE InsertByDistance(SortByDistance(SubSeq(queue, 1, Len(queue) - 1)),
                          queue[Len(queue)])

\* the body of `for (const edge of edges)` for one edge
RelaxEdge(st, current, edge) ==
    IF edge.targetNodeId \in st.visited THEN st
    ELSE LET newDistance == current.distance + edge.weight
             currentBest == GetDistance(st.distances, edge.targetNodeId)
         IN IF LessThan(newDistance, currentBest)
            THEN [st EXCEPT
                    !.distances = MapSet(@, edge.targetNodeId, newDistance),
                    !.previous = MapSet(@, edge.targetNodeId, current.nodeId),
                    !.queue = Append(@, [nodeId |-> edge.targetNodeId,
                                         distance |-> newDistance])]
            ELSE st

RECURSIVE RelaxEdges(_, _, _)
RelaxEdges(st, current, edges) ==
    IF edges = <<>> THEN st
    ELSE RelaxEdges(RelaxEdge(st, current, Head(edges)), current, Tail(edges))

\* while (queue.length > 0) { ... }
RECURSIVE DijkstraLoop(_, _, _)
DijkstraLoop(st, mapData, endId) ==
    IF st.queue = <<>> THEN st
    ELSE LET sorted == SortByDistance(st.queue)
             current == Head(sorted)
             popped == [st EXCEPT !.queue = Tail(sorted)]
         IN IF current.nodeId \in st.visited
            THEN DijkstraLoop(popped, mapData, endId)
            ELSE LET marked == [popped EXCEPT !.visited = @ \cup {current.nodeId}]
                 IN IF current.nodeId = endId THEN marked
                    ELSE DijkstraLoop(
                           RelaxEdges(marked, current, EdgesOf(mapData, current.nodeId)),
                           mapData, endId)

\* while (currentNode !== null) { path.unshift(currentNode); ... }
RECURSIVE ReconstructPath(_, _, _)
ReconstructPath(previous, currentNode, path) ==
    IF currentNode = Null THEN path
    ELSE ReconstructPath(previous, GetPrevious(previous, currentNode),
                         <<currentNode>> \o path)

\* mutant of PathStartsAt: the reconstructed path is returned unverified
PathStartsAt_Unchecked(path, startId) == TRUE

\* path[0] === startId
PathStartsAt(path, startId) == Head(path) = startId

findLocalPath(mapData, startId, endId) ==
    IF startId = endId THEN Return(<<startId>>)
    ELSE LET nodeIds == NodeIdSet(mapData) IN
      IF startId \notin nodeIds
      THEN Throw("NODE_NOT_FOUND", <<"Start node not found in map", startId, mapData.id>>)
      ELSE IF endId \notin nodeIds
      THEN Throw("NODE_NOT_FOUND", <<"End node not found in map", endId, mapData.id>>)
      ELSE LET init == [distances |-> MapSet([n \in nodeIds |-> Infinity], startId, 0),
                        previous |-> [n \in nodeIds |-> Null],
                        visited |-> {},
                        queue |-> <<[nodeId |-> startId, distance |-> 0]>>]
               final == DijkstraLoop(init, mapData, endId)
               path == ReconstructPath(final.previous, endId, <<>>)
           IN IF ~PathStartsAt(path, startId)
              THEN Throw("NO_PATH",
                         <<"No path exists in map", startId, endId, mapData.id>>)
              ELSE Return(path)

\* edges.find((e) => e.targetNodeId === nextNodeId): the first match, or undefined
FindEdge(edges, targetNodeId) ==
    LET hits == {k \in 1..Len(edges) : edges[k].targetNodeId = targetNodeId}
    IN IF hits = {} THEN None
       ELSE Some(edges[CHOOSE k \in hits : \A j \in hits : k <= j])

RECURSIVE calculatePathDistance(_, _)
calculatePathDistance(mapData, pathNodeIds) ==
    IF Len(pathNodeIds) < 2 THEN 0
    ELSE LET edge == FindEdge(EdgesOf(mapData, pathNodeIds[1]), pathNodeIds[2])
         IN (IF edge # None THEN edge[1].weight ELSE 0)
            + calculatePathDistance(mapData, Tail(pathNodeIds))

(***************************************************************************)
(* Global pathfinding: buildMapMetaGraph and findMapChain (BFS)            *)
(***************************************************************************)
\* mutant of GatewayTargets: the includes test is dropped, every gateway pushes
GatewayTargets_KeepDuplicates(nodes, found) ==
    LET RECURSIVE Push(_, _)
        Push(rest, acc) ==
            IF rest = <<>> THEN acc
            ELSE Push(Tail(rest),
                      IF isGatewayNode(Head(rest))
                      THEN Append(acc, Head(rest).gatewayConfig[1].targetMapId)
                      ELSE acc)
    IN Push(nodes, found)

\* for (const node of map.nodes) of buildMapMetaGraph, for one map
RECURSIVE GatewayTargets(_, _)
GatewayTargets(nodes, found) ==
    IF nodes = <<>> THEN found
    ELSE LET node == Head(nodes)
             targetMapId == node.gatewayConfig[1].targetMapId
         IN IF isGatewayNode(node) /\ targetMapId \notin Range(found)
            THEN GatewayTargets(Tail(nodes), Append(found, targetMapId))
            ELSE GatewayTargets(Tail(nodes), found)

buildMapMetaGraph(allMaps) ==
    [id \in {allMaps[k].id : k \in 1..Len(allMaps)} |->
        LET map == allMaps[CHOOSE k \in 1..Len(allMaps) : allMaps[k].id = id]
        IN GatewayTargets(map.nodes, <<>>)]

\* mutant of HasKey: the validation of the map ids is skipped
HasKey_Always(metaGraph, id) == TRUE

\* id in metaGraph
HasKey(metaGraph, id) == id \in DOMAIN metaGraph

\* mutant of Dequeue: the newest entry is taken (a stack, depth-first)
Dequeue_Pop(queue) ==
    [current |-> queue[Len(queue)], rest |-> SubSeq(queue, 1, Len(queue) - 1)]

\* const current = queue.shift()!
Dequeue(queue) == [current |-> Head(queue), rest |-> Tail(queue)]

\* metaGraph[current.mapId] ?? []
ConnectedMaps(metaGraph, id) ==
    IF id \in DOMAIN metaGraph THEN metaGraph[id] ELSE <<>>

\* for (const nextMapId of connectedMaps) of findMapChain
RECURSIVE EnqueueUnvisited(_, _, _, _)
EnqueueUnvisited(queue, visited, current, connectedMaps) ==
    IF connectedMaps = <<>> THEN queue
    ELSE LET nextMapId == Head(connectedMaps)
         IN EnqueueUnvisited(
              IF nextMapId \notin visited
              THEN Append(queue, [mapId |-> nextMapId,
                                  path |-> Append(current.path, nextMapId)])
              ELSE queue,
              visited, current, Tail(connectedMaps))

\* while (queue.length > 0) of findMapChain
RECURSIVE ChainLoop(_, _, _, _, _)
ChainLoop(queue, visited, metaGraph, startMapId, endMapId) ==
    IF queue = <<>>
    THEN Throw("NO_PATH", <<"No route exists from map to map", startMapId, endMapId>>)
    ELSE LET current == Dequeue(queue).current
             rest == Dequeue(queue).rest
         IN IF current.mapId = endMapId THEN Return(current.path)
            ELSE IF current.mapId \in visited
            THEN ChainLoop(rest, visited, metaGraph, startMapId, endMapId)
            ELSE LET connectedMaps == ConnectedMaps(metaGraph, current.mapId)
                     seen == visited \cup {current.mapId}
                 IN ChainLoop(EnqueueUnvisited(rest, seen, current, connectedMaps),
                              seen, metaGraph, startMapId, endMapId)

findMapChain(startMapId, endMapId, allMaps) ==
    IF startMapId = endMapId THEN Return(<<startMapId>>)
    ELSE LET metaGraph == buildMapMetaGraph(allMaps) IN
      IF ~HasKey(metaGraph, startMapId)
      THEN Throw("MAP_NOT_FOUND", <<"Start map not found", startMapId>>)
      ELSE IF ~HasKey(metaGraph, endMapId)
      THEN Throw("MAP_NOT_FOUND", <<"End map not found", endMapId>>)
      ELSE ChainLoop(<<[mapId |-> startMapId, path |-> <<startMapId>>]>>, {},
                     metaGraph, startMapId, endMapId)

(***************************************************************************)
(* Gateway utilities: findAllGatewaysToMap and findBestGateway             *)
(***************************************************************************)
\* mutant of findAllGatewaysToMap: only the first match is a candidate
findAllGatewaysToMap_FirstOnly(mapData, targetMapId) ==
    LET wanted(node) == isGatewayNode(node)
                        /\ node.gatewayConfig[1].targetMapId = targetMapId
        all == SelectSeq(mapData.nodes, wanted)
    IN IF all = <<>> THEN <<>> ELSE <<Head(all)>>

findAllGatewaysToMap(mapData, targetMapId) ==
    LET wanted(node) == isGatewayNode(node)
                        /\ node.gatewayConfig[1].targetMapId = targetMapId
    IN SelectSeq(mapData.nodes, wanted)

\* the distance loop of findBestGateway: distance += edge?.weight ?? 0
RECURSIVE GatewayPathDistance(_, _)
GatewayPathDistance(mapData, path) ==
    IF Len(path) < 2 THEN 0
    ELSE LET edge == FindEdge(EdgesOf(mapData, path[1]), path[2])
         IN (IF edge # None THEN edge[1].weight ELSE 0)
            + GatewayPathDistance(mapData, Tail(path))

\* mutant of KeepBetter: bestGateway is assigned only while it is still null
KeepBetter_FirstGateway(best, gateway, path, distance) ==
    IF LessThan(distance, best.bestDistance)
    THEN [bestDistance |-> distance,
          bestGateway |-> IF best.bestGateway = None THEN Some(gateway)
                          ELSE best.bestGateway,
          bestPath |-> path]
    ELSE best

\* if (distance < bestDistance) { ... } for a path that was found
KeepBetter(best, gateway, path, distance) ==
    IF LessThan(distance, best.bestDistance)
    THEN [bestDistance |-> distance, bestGateway |-> Some(gateway), bestPath |-> path]
    ELSE best

\* try { const path = findLocalPath(...); ... } catch { continue }, given what
\* findLocalPath returned or threw
TryGateway(mapData, best, gateway, found) ==
    IF found.tag = "return"
    THEN KeepBetter(best, gateway, found.value, GatewayPathDistance(mapData, found.value))
    ELSE best

\* for (const gateway of gateways)
RECURSIVE BestGatewayLoop(_, _, _, _)
BestGatewayLoop(mapData, startNodeId, gateways, best) ==
    IF gateways = <<>> THEN best
    ELSE BestGatewayLoop(mapData, startNodeId, Tail(gateways),
           TryGateway(mapData, best, Head(gateways),
                      findLocalPath(mapData, startNodeId, Head(gateways).id)))

\* if (bestGateway === null) return null; return { gateway, path }
BestOrNull(best) ==
    IF best.bestGateway = None THEN None
    ELSE Some([gateway |-> best.bestGateway[1], path |-> best.bestPath])

\* findBestGateway once the candidates are known
BestAmong(mapData, startNodeId, gateways) ==
    IF gateways = <<>> THEN None
    ELSE BestOrNull(BestGatewayLoop(mapData, startNodeId, gateways,
           [bestDistance |-> Infinity, bestGateway |-> None, bestPath |-> <<>>]))

\* null, or Some of { gateway, path }
findBestGateway(mapData, startNodeId, targetMapId) ==
    BestAmong(mapData, startNodeId, findAllGatewaysToMap(mapData, targetMapId))

(***************************************************************************)
(* generateNavigationPath: the synchronous pieces between its awaits       *)
(***************************************************************************)
Request(startMapId, startNodeId, endMapId, endNodeId) ==
    [startMapId |-> startMapId, startNodeId |-> startNodeId,
     endMapId |-> endMapId, endNodeId |-> endNodeId]

\* mutant of Segment: the transition target is left out of the pushed segment
Segment_NoTransition(mapId, pathNodeIds, transitionTarget) ==
    [mapId |-> mapId, pathNodeIds |-> pathNodeIds, transitionTarget |-> None]

\* segments.push({ mapId: currentMapId, pathNodeIds, transitionTarget })
Segment(mapId, pathNodeIds, transitionTarget) ==
    [mapId |-> mapId, pathNodeIds |-> pathNodeIds,
     transitionTarget |-> transitionTarget]

\* mutant of NextEntry: the next hop starts at the gateway's own id
NextEntry_GatewayId(gateway) == gateway.id

\* currentEntryNodeId = gatewayConfig.targetNodeId
NextEntry(gateway) == gateway.gatewayConfig[1].targetNodeId

\* the last map's branch, given what findLocalPath returned or threw
LastHop(currentMapId, currentEntryNodeId, found) ==
    IF found.tag = "throw" THEN found
    ELSE Return([segment |-> Segment(currentMapId, found.value, None),
                 entry |-> currentEntryNodeId])

\* transitionTarget = { mapId: gatewayConfig.targetMapId, nodeId: ...targetNodeId }
TransitionTarget(gatewayConfig) ==
    Some([mapId |-> gatewayConfig.targetMapId, nodeId |-> gatewayConfig.targetNodeId])

\* the other maps' branch, given what findBestGateway returned
GatewayHop(currentMapId, nextMapId, gatewayResult) ==
    IF gatewayResult = None
    THEN Throw("GATEWAY_NOT_FOUND",
               <<"No gateway found from map to map", currentMapId, nextMapId>>)
    ELSE Return([segment |-> Segment(currentMapId, gatewayResult[1].path,
                               TransitionTarget(gatewayResult[1].gateway.gatewayConfig[1])),
                 entry |-> NextEntry(gatewayResult[1].gateway)])

\* the body of the for loop after `await getMap(currentMapId)` resolved to
\* fetched (None for null): the error it throws, or the segment it pushes and
\* the entry node of the next hop
HopBody(fetched, chain, i, currentEntryNodeId, endNodeId) ==
    IF fetched = None
    THEN Throw("MAP_NOT_FOUND", <<"Map not found", chain[i]>>)
    ELSE IF i = Len(chain)
    THEN LastHop(chain[i], currentEntryNodeId,
                 findLocalPath(fetched[1], currentEntryNodeId, endNodeId))
    ELSE GatewayHop(chain[i], chain[i + 1],
                    findBestGateway(fetched[1], currentEntryNodeId, chain[i + 1]))

\* mutant of TotalNodes: a transition's node is counted once
TotalNodes_TransitionsOnce(segs) ==
    LET RECURSIVE Sum(_)
        Sum(rest) == IF rest = <<>> THEN 0
                     ELSE Len(Head(rest).pathNodeIds) + Sum(Tail(rest))
    IN IF segs = <<>> THEN 0 ELSE Sum(segs) - (Len(segs) - 1)

\* segments.reduce((sum, seg) => sum + seg.pathNodeIds.length, 0)
RECURSIVE TotalNodes(_)
TotalNodes(segs) ==
    IF segs = <<>> THEN 0
    ELSE Len(Head(segs).pathNodeIds) + TotalNodes(Tail(segs))

SuccessResult(chain, segs) ==
    [success |-> TRUE, totalMaps |-> Len(chain), totalNodes |-> TotalNodes(segs),
     segments |-> segs, error |-> None]

\* mutant of FailureResult: the message is dropped
FailureResult_NoMessage(message) ==
    [success |-> FALSE, totalMaps |-> 0, totalNodes |-> 0, segments |-> <<>>,
     error |-> None]

FailureResult(message) ==
    [success |-> FALSE, totalMaps |-> 0, totalNodes |-> 0, segments |-> <<>>,
     error |-> Some(message)]

\* mutant of CatchBlock: an error that is not a PathfinderError is thrown again
CatchBlock_Rethrow(error) ==
    IF error.name = "PathfinderError"
    THEN [result |-> Some(FailureResult(error.message)), escaped |-> None]
    ELSE [result |-> None, escaped |-> Some(error)]

\* catch (error) { ... }
CatchBlock(error) ==
    IF error.name = "PathfinderError"
    THEN [result |-> Some(FailureResult(error.message)), escaped |-> None]
    ELSE [result |-> Some(FailureResult(IF error.name = "Error" THEN error.message
                                        ELSE <<"Unknown pathfinding error">>)),
          escaped |-> None]

(***************************************************************************)
(* validateNavigationResult                                                *)
(***************************************************************************)
\* pathNodeIds[0]: undefined for an empty array
FirstOf(pathNodeIds) ==
    IF pathNodeIds = <<>> THEN None ELSE Some(pathNodeIds[1])

\* the for loop of validateNavigationResult from index i on (1-based here):
\* FALSE where it returns false, TRUE when it runs to its end
RECURSIVE TransitionsAlign(_, _)
TransitionsAlign(segs, i) ==
    IF i > Len(segs) - 1 THEN TRUE
    ELSE LET current == segs[i]
             next == segs[i + 1]
         IN IF current.transitionTarget = None THEN FALSE
            ELSE IF current.transitionTarget[1].mapId # next.mapId THEN FALSE
            ELSE IF FirstOf(next.pathNodeIds) # Some(current.transitionTarget[1].nodeId)
            THEN FALSE
            ELSE TransitionsAlign(segs, i + 1)

\* mutant of validateNavigationResult: the target map is compared with the
\* segment's own map instead of the next one's
validateNavigationResult_OwnMap(res) ==
    IF ~res.success \/ Len(res.segments) = 0 THEN FALSE
    ELSE IF \E i \in 1..Len(res.segments) - 1 :
              \/ res.segments[i].transitionTarget = None
              \/ res.segments[i].transitionTarget[1].mapId # res.segments[i].mapId
              \/ FirstOf(res.segments[i + 1].pathNodeIds)
                    # Some(res.segments[i].transitionTarget[1].nodeId)
    THEN FALSE
    ELSE res.segments[Len(res.segments)].transitionTarget = None

validateNavigationResult(res) ==
    IF ~res.success \/ Len(res.segments) = 0 THEN FALSE
    ELSE IF ~TransitionsAlign(res.segments, 1) THEN FALSE
    ELSE IF res.segments[Len(res.segments)].transitionTarget # None THEN FALSE
    ELSE TRUE

(***************************************************************************)
(* The map collection and its edits (PUT /api/maps/[id] replaces a map's   *)
(* nodes and adjacency list with whatever document the client sends)       *)
(***************************************************************************)
EmptyAdjacency == [id \in {} |-> <<>>]

PlainNodes == <<Node("a", "NORMAL", None), Node("b", "ROOM", None),
                Node("c", "NORMAL", None)>>

\* number of edges of a map
EdgeCount(mapData) ==
    LET keys == DOMAIN mapData.adjacencyList
        RECURSIVE Sum(_)
        Sum(S) == IF S = {} THEN 0
                  ELSE LET k == CHOOSE x \in S : TRUE
                       IN Len(mapData.adjacencyList[k]) + Sum(S \ {k})
    IN Sum(keys)

\* body.adjacencyList with one more edge at the end of fromId's list
WithEdge(mapData, fromId, edge) ==
    [mapData EXCEPT !.adjacencyList =
        MapSet(@, fromId, Append(EdgesOf(mapData, fromId), edge))]

NavIdle ==
    /\ pc = "idle"
    /\ req = <<>>
    /\ mapChain = <<>>
    /\ hop = 0
    /\ segments = <<>>
    /\ entry = ""
    /\ thrown = None
    /\ result = None
    /\ escaped = None
    /\ calls = <<>>

LibIdle ==
    /\ fn = ""
    /\ args = <<>>
    /\ ret = None

AuxIdle ==
    /\ running = 0
    /\ other = <<>>
    /\ writes = 0
    /\ bfs = <<>>
    /\ ui = <<>>
    /\ cached = <<>>
    /\ attempts = <<>>
    /\ callers = <<>>

(***************************************************************************)
(* SpecLocal: one map, edited edge by edge, and calls of findLocalPath     *)
(***************************************************************************)
LocalIds == NodeIds \cup {NoSuchNode}
TheMap == store["M1"]

InitLocal ==
    /\ store = ("M1" :> MapData("M1", PlainNodes, EmptyAdjacency))
    /\ LibIdle
    /\ NavIdle
    /\ AuxIdle

AddEdge ==
    /\ fn = ""
    /\ EdgeCount(TheMap) < MaxEdges
    /\ \E fromId \in LocalIds, toId \in LocalIds, w \in Weights :
         /\ fromId # toId
         /\ store' = [store EXCEPT !["M1"] = WithEdge(@, fromId, Edge(toId, w))]
    /\ UNCHANGED <<libVars, navVars>>
    /\ UNCHANGED auxVars

CallFindLocalPath ==
    /\ fn = ""
    /\ \E startId \in LocalIds, endId \in LocalIds :
         /\ fn' = "findLocalPath"
         /\ args' = <<startId, endId>>
         /\ ret' = Some(findLocalPath(TheMap, startId, endId))
    /\ UNCHANGED <<store, navVars>>
    /\ UNCHANGED auxVars

NextLocal == AddEdge \/ CallFindLocalPath

SpecLocal == InitLocal /\ [][NextLocal]_vars

(***************************************************************************)
(* Reference notions the local-router claims are stated against, computed  *)
(* from the adjacency list alone (not from findLocalPath)                  *)
(***************************************************************************)
\* the directed edges of a map as triples <<from, to, weight>>
EdgeTriples(mapData) ==
    UNION {{<<u, e.targetNodeId, e.weight>> : e \in Range(mapData.adjacencyList[u])} :
             u \in DOMAIN mapData.adjacencyList}

\* every id that names a node, a key of the adjacency list or an edge target
IdsOf(mapData) ==
    NodeIdSet(mapData) \cup {t[1] : t \in EdgeTriples(mapData)}
                       \cup {t[2] : t \in EdgeTriples(mapData)}

\* ids reachable from a set of ids along directed edges (the set included)
RECURSIVE ReachableFrom(_, _)
ReachableFrom(mapData, S) ==
    LET more == S \cup {t[2] : t \in {x \in EdgeTriples(mapData) : x[1] \in S}}
    IN IF more = S THEN S ELSE ReachableFrom(mapData, more)

Reachable(mapData, startId, endId) == endId \in ReachableFrom(mapData, {startId})

MinOf(S) == CHOOSE x \in S : \A y \in S : x <= y

\* Bellman-Ford rounds: d[v] is the least weight of a walk of at most k more edges
RECURSIVE Relaxed(_, _, _)
Relaxed(E, d, k) ==
    IF k = 0 THEN d
    ELSE Relaxed(E,
           [v \in DOMAIN d |->
              LET cands == (IF d[v] = Infinity THEN {} ELSE {d[v]})
                           \cup {d[t[1]] + t[3] :
                                   t \in {x \in E : x[2] = v /\ d[x[1]] # Infinity}}
              IN IF cands = {} THEN Infinity ELSE MinOf(cands)],
           k - 1)

\* least total weight of a walk from startId to endId; Infinity when there is none
MinWalkWeight(mapData, startId, endId) ==
    LET ids == IdsOf(mapData) \cup {startId, endId}
        d0 == [v \in ids |-> IF v = startId THEN 0 ELSE Infinity]
    IN Relaxed(EdgeTriples(mapData), d0, Cardinality(ids))[endId]

\* some ordered pair of nodes is joined by more than one edge
HasParallelEdges(mapData) ==
    \E u \in DOMAIN mapData.adjacencyList :
       \E j, k \in 1..Len(mapData.adjacencyList[u]) :
          j < k /\ mapData.adjacencyList[u][j].targetNodeId
                     = mapData.adjacencyList[u][k].targetNodeId

\* consecutive ids of a path are joined by an edge
IsWalk(mapData, path) ==
    \A k \in 1..Len(path) - 1 :
       \E t \in EdgeTriples(mapData) : t[1] = path[k] /\ t[2] = path[k + 1]

CalledLocal == fn = "findLocalPath"
Returned == ret # None /\ ret[1].tag = "return"
Threw(code) == ret # None /\ ret[1].tag = "throw" /\ ret[1].code = code

(***************************************************************************)
(* C6. Claim as stated: for reachable (start, end) of the node set, the    *)
(* path findLocalPath returns has, by calculatePathDistance, the minimum   *)
(* total weight over all start-to-end walks, parallel edges included.      *)
(***************************************************************************)
C6_PathWeightIsMinimal ==
    (CalledLocal /\ args[1] \in NodeIdSet(TheMap) /\ args[2] \in NodeIdSet(TheMap)
       /\ Reachable(TheMap, args[1], args[2]))
    => /\ Returned
       /\ calculatePathDistance(TheMap, ret[1].value)
            = MinWalkWeight(TheMap, args[1], args[2])

\* the same, on maps without parallel edges (not a claim; kept as a cross-check)
PathWeightIsMinimalWithoutParallelEdges ==
    HasParallelEdges(TheMap) \/ C6_PathWeightIsMinimal

(***************************************************************************)
(* C7. Claim as stated: findLocalPath fails with NODE_NOT_FOUND whenever   *)
(* the start id or the end id is not in the map's node set, start = end    *)
(* included.                                                               *)
(***************************************************************************)
C7_AbsentIdFailsNodeNotFound ==
    (CalledLocal /\ (args[1] \notin NodeIdSet(TheMap) \/ args[2] \notin NodeIdSet(TheMap)))
    => Threw("NODE_NOT_FOUND")

(***************************************************************************)
(* C8. For start # end, both in the node set, findLocalPath throws NO_PATH *)
(* exactly when end is not reachable from start along directed edges, and  *)
(* returns a path otherwise.                                               *)
(***************************************************************************)
C8_NoPathIffUnreachable ==
    (CalledLocal /\ args[1] # args[2]
       /\ args[1] \in NodeIdSet(TheMap) /\ args[2] \in NodeIdSet(TheMap))
    => /\ Threw("NO_PATH") <=> ~Reachable(TheMap, args[1], args[2])
       /\ Returned <=> Reachable(TheMap, args[1], args[2])

\* an edge end -> start exists, none leads from start to end, and NO_PATH was thrown
C8_Witness ==
    /\ CalledLocal /\ args[1] # args[2]
    /\ args[1] \in NodeIdSet(TheMap) /\ args[2] \in NodeIdSet(TheMap)
    /\ \E t \in EdgeTriples(TheMap) : t[1] = args[2] /\ t[2] = args[1]
    /\ ~Reachable(TheMap, args[1], args[2])
    /\ Threw("NO_PATH")

(***************************************************************************)
(* SpecChain: three maps whose gateway nodes are added one by one, and     *)
(* calls of findMapChain                                                   *)
(***************************************************************************)
\* getAllMaps' array: the maps of the collection, one entry per map
RECURSIVE MapsOf(_, _)
MapsOf(collection, ids) ==
    IF ids = {} THEN <<>>
    ELSE LET id == CHOOSE x \in ids : \A y \in ids : x = y \/ <<x, y>> \in IdOrder
         IN <<collection[id]>> \o MapsOf(collection, ids \ {id})

AllMapsOf(collection) == MapsOf(collection, DOMAIN collection)

GatewayNodeIds == <<"g1", "g2", "g3", "g4", "g5", "g6">>

\* the gateway-like nodes an edit may add: valid ones, ones with a missing or
\* blank descriptor field, and a room that still carries a descriptor
AddedNodeKinds ==
    {[type |-> "GATEWAY", gatewayConfig |-> Some(GatewayConfig(t, "a"))] :
        t \in MapIds \cup {NoSuchMap}}
    \cup {[type |-> "GATEWAY", gatewayConfig |-> None],
          [type |-> "GATEWAY", gatewayConfig |-> Some(GatewayConfig(" ", "a"))]}
    \cup {[type |-> "GATEWAY", gatewayConfig |-> Some(GatewayConfig(t, ""))] :
        t \in MapIds}
    \cup {[type |-> "ROOM", gatewayConfig |-> Some(GatewayConfig("M3", "a"))]}

\* nodes added to the collection so far (every map starts with the node "a")
AddedCount(collection) ==
    LET RECURSIVE Sum(_)
        Sum(S) == IF S = {} THEN 0
                  ELSE LET k == CHOOSE x \in S : TRUE
                       IN (Len(collection[k].nodes) - 1) + Sum(S \ {k})
    IN Sum(DOMAIN collection)

WithNode(mapData, kind) ==
    [mapData EXCEPT !.nodes =
        Append(@, Node(GatewayNodeIds[Len(@)], kind.type, kind.gatewayConfig))]

InitChain ==
    /\ store = [id \in MapIds |->
                  MapData(id, <<Node("a", "NORMAL", None)>>, EmptyAdjacency)]
    /\ LibIdle
    /\ NavIdle
    /\ AuxIdle

AddGatewayNode ==
    /\ fn = ""
    /\ AddedCount(store) < MaxGateways
    /\ \E id \in MapIds, kind \in AddedNodeKinds :
         store' = [store EXCEPT ![id] = WithNode(@, kind)]
    /\ UNCHANGED <<libVars, navVars>>
    /\ UNCHANGED auxVars

CallFindMapChain ==
    /\ fn = ""
    /\ \E startMapId \in MapIds \cup {NoSuchMap}, endMapId \in MapIds \cup {NoSuchMap} :
         /\ fn' = "findMapChain"
         /\ args' = <<startMapId, endMapId>>
         /\ ret' = Some(findMapChain(startMapId, endMapId, AllMapsOf(store)))
    /\ UNCHANGED <<store, navVars>>
    /\ UNCHANGED auxVars

CallBuildMapMetaGraph ==
    /\ fn = ""
    /\ fn' = "buildMapMetaGraph"
    /\ args' = <<>>
    /\ ret' = Some(Return(buildMapMetaGraph(AllMapsOf(store))))
    /\ UNCHANGED <<store, navVars>>
    /\ UNCHANGED auxVars

NextChain == AddGatewayNode \/ CallFindMapChain \/ CallBuildMapMetaGraph

SpecChain == InitChain /\ [][NextChain]_vars

(***************************************************************************)
(* Reference notions the map-chain claims are stated against, computed     *)
(* from the gateway nodes of the collection (not from buildMapMetaGraph)   *)
(***************************************************************************)
\* a node is a valid gateway: type GATEWAY and a descriptor with two non-blank ids
ValidGateway(node) ==
    /\ node.type = "GATEWAY"
    /\ node.gatewayConfig # None
    /\ node.gatewayConfig[1].targetMapId \notin {"", " "}
    /\ node.gatewayConfig[1].targetNodeId \notin {"", " "}

\* <<m, t>>: map m of the collection has a valid gateway whose target map is t
MetaEdges(collection) ==
    UNION {{<<id, n.gatewayConfig[1].targetMapId>> :
              n \in {x \in Range(collection[id].nodes) : ValidGateway(x)}} :
           id \in DOMAIN collection}

\* map ids at most k hops from the ids of S
RECURSIVE WithinHops(_, _, _)
WithinHops(E, S, k) ==
    IF k = 0 THEN S
    ELSE WithinHops(E, S \cup {e[2] : e \in {x \in E : x[1] \in S}}, k - 1)

MetaReachable(collection, startMapId, endMapId) ==
    endMapId \in WithinHops(MetaEdges(collection), {startMapId},
                            Cardinality(MetaEdges(collection)))

\* least number of hops from startMapId to endMapId (which is reachable)
HopDistance(collection, startMapId, endMapId) ==
    MinOf({k \in 0..Cardinality(MetaEdges(collection)) :
             endMapId \in WithinHops(MetaEdges(collection), {startMapId}, k)})

CalledChain == fn = "findMapChain"

(***************************************************************************)
(* C9. For existing, distinct start and end maps with end reachable in the *)
(* meta-graph, findMapChain returns a sequence from start to end whose     *)
(* consecutive maps are joined by a gateway and whose number of hops is    *)
(* the least possible.                                                     *)
(***************************************************************************)
C9_ChainIsShortest ==
    (CalledChain /\ args[1] # args[2]
       /\ args[1] \in DOMAIN store /\ args[2] \in DOMAIN store
       /\ MetaReachable(store, args[1], args[2]))
    => /\ Returned
       /\ LET chain == ret[1].value
          IN /\ chain[1] = args[1]
             /\ chain[Len(chain)] = args[2]
             /\ \A k \in 1..Len(chain) - 1 :
                  <<chain[k], chain[k + 1]>> \in MetaEdges(store)
             /\ Len(chain) - 1 = HopDistance(store, args[1], args[2])

\* a direct gateway and a two-hop detour both exist; the direct chain was returned
C9_Witness ==
    /\ CalledChain /\ args[1] # args[2] /\ Returned
    /\ Len(ret[1].value) = 2
    /\ \E x \in MapIds \ {args[1], args[2]} :
         /\ <<args[1], x>> \in MetaEdges(store)
         /\ <<x, args[2]>> \in MetaEdges(store)

(***************************************************************************)
(* C10. Claim as stated: findMapChain fails with MAP_NOT_FOUND whenever    *)
(* the start or the end map id is not the id of a supplied map, start =    *)
(* end included.                                                           *)
(***************************************************************************)
C10_AbsentMapFailsMapNotFound ==
    (CalledChain /\ (args[1] \notin DOMAIN store \/ args[2] \notin DOMAIN store))
    => Threw("MAP_NOT_FOUND")

(***************************************************************************)
(* C10, amended. For start # end, findMapChain fails with MAP_NOT_FOUND    *)
(* whenever the start or the end map id is not the id of a supplied map;   *)
(* for start = end it returns the one-element chain without looking the id *)
(* up.                                                                     *)
(***************************************************************************)
C10_AbsentMapFailsUnlessSame ==
    CalledChain =>
      /\ (args[1] # args[2]
            /\ (args[1] \notin DOMAIN store \/ args[2] \notin DOMAIN store))
         => Threw("MAP_NOT_FOUND")
      /\ args[1] = args[2] => (Returned /\ ret[1].value = <<args[1]>>)

\* the start map exists and has a gateway, the end map does not exist
C10_Witness ==
    /\ CalledChain /\ args[1] \in DOMAIN store /\ args[2] \notin DOMAIN store
    /\ \E e \in MetaEdges(store) : e[1] = args[1] /\ e[2] = args[2]
    /\ Threw("MAP_NOT_FOUND")

(***************************************************************************)
(* C11. Claim as stated: when both map ids exist, differ, and the end map  *)
(* is not reachable in the meta-graph, findMapChain fails with an error    *)
(* kind of its own, distinct from the kind findLocalPath fails with when   *)
(* no path joins two nodes of a map.                                       *)
(***************************************************************************)
\* the code of the error findLocalPath throws between two unconnected nodes
LocalNoPathCode ==
    findLocalPath(MapData("M1", PlainNodes, EmptyAdjacency), "a", "b").code

NoRoute ==
    /\ CalledChain /\ args[1] # args[2]
    /\ args[1] \in DOMAIN store /\ args[2] \in DOMAIN store
    /\ ~MetaReachable(store, args[1], args[2])

C11_NoRouteHasItsOwnKind ==
    NoRoute => /\ ret # None /\ ret[1].tag = "throw"
               /\ ret[1].code # LocalNoPathCode

\* what the code does there (not a claim; kept as a cross-check): it throws a
\* PathfinderError with the code NO_PATH, exactly when there is no route
NoRouteThrowsNoPath ==
    (CalledChain /\ args[1] # args[2]
       /\ args[1] \in DOMAIN store /\ args[2] \in DOMAIN store)
    => (Threw("NO_PATH") <=> ~MetaReachable(store, args[1], args[2]))

(***************************************************************************)
(* C12. buildMapMetaGraph returns a mapping whose keys are exactly the ids *)
(* of the supplied maps and whose value for a map lists, without           *)
(* duplicates, exactly the target map ids of that map's valid gateways     *)
(* (none for a map without one; a gateway to its own map is kept).         *)
(***************************************************************************)
CalledMetaGraph == fn = "buildMapMetaGraph"

C12_MetaGraphIsTheGatewayRelation ==
    CalledMetaGraph =>
      LET metaGraph == ret[1].value
      IN /\ DOMAIN metaGraph = DOMAIN store
         /\ \A id \in DOMAIN store :
              /\ Range(metaGraph[id]) = {e[2] : e \in {x \in MetaEdges(store) : x[1] = id}}
              /\ Cardinality(Range(metaGraph[id])) = Len(metaGraph[id])

\* one map has two valid gateways with the same target and one to itself;
\* another map has no gateway at all
C12_Witness ==
    /\ CalledMetaGraph
    /\ \E id \in DOMAIN store :
         /\ <<id, id>> \in MetaEdges(store)
         /\ \E j, k \in 1..Len(store[id].nodes) :
              /\ j < k
              /\ ValidGateway(store[id].nodes[j]) /\ ValidGateway(store[id].nodes[k])
              /\ store[id].nodes[j].gatewayConfig = store[id].nodes[k].gatewayConfig
         /\ Len(ret[1].value[id]) = 2
    /\ \E id \in DOMAIN store : ret[1].value[id] = <<>>

(***************************************************************************)
(* Spec: generateNavigationPath over a collection of three maps.  Every    *)
(* map has the nodes a, b, c (one layout adds d) and one of the layouts     *)
(* below; its gateways                                                     *)
(* lead to the next map of the cycle M1 -> M2 -> M3 -> M1 (one layout also *)
(* leads back).                                                            *)
(***************************************************************************)
NextMapOf ==  [id \in MapIds |-> CASE id = "M1" -> "M2" [] id = "M2" -> "M3" [] OTHER -> "M1"]
PrevMapOf ==  [id \in MapIds |-> CASE id = "M1" -> "M3" [] id = "M2" -> "M1" [] OTHER -> "M2"]

\* adjacency lists over a, b, c
AdjLine ==      \* a <-> b <-> c
    [id \in {"a", "b", "c"} |->
       CASE id = "a" -> <<Edge("b", 1)>>
         [] id = "b" -> <<Edge("a", 1), Edge("c", 1)>>
         [] OTHER -> <<Edge("b", 1)>>]
AdjFork ==      \* a -> b (2), a -> c (1), one way
    [id \in {"a"} |-> <<Edge("b", 2), Edge("c", 1)>>]
AdjCut ==       \* a <-> b; c is cut off
    [id \in {"a", "b"} |-> IF id = "a" THEN <<Edge("b", 1)>> ELSE <<Edge("a", 1)>>]
AdjParallel ==  \* two edges a -> b (2 then 0), a -> c (1)
    [id \in {"a"} |-> <<Edge("b", 2), Edge("b", 0), Edge("c", 1)>>]

Gateway(id, targetMapId, targetNodeId) ==
    Node(id, "GATEWAY", Some(GatewayConfig(targetMapId, targetNodeId)))

Layouts(id) ==
    LET next == NextMapOf[id]
        prev == PrevMapOf[id]
        a == Node("a", "NORMAL", None)
    IN { \* one gateway, at the far end of the line
         MapData(id, <<a, Node("b", "ROOM", None), Gateway("c", next, "a")>>, AdjLine),
         \* two gateways to the same map, the nearer one first in the node list
         MapData(id, <<a, Gateway("b", next, "a"), Gateway("c", next, "c")>>, AdjLine),
         \* two gateways, the nearer one (c) entering the next map at c
         MapData(id, <<a, Gateway("b", next, "a"), Gateway("c", next, "c")>>, AdjFork),
         \* two gateways, one of them unreachable from a
         MapData(id, <<a, Gateway("c", next, "c"), Gateway("b", next, "a")>>, AdjCut),
         \* two gateways behind parallel edges
         MapData(id, <<a, Gateway("b", next, "a"), Gateway("c", next, "c")>>, AdjParallel),
         \* a gateway whose target node does not exist in the next map
         MapData(id, <<a, Gateway("b", next, NoSuchNode), Node("c", "ROOM", None)>>, AdjLine),
         \* a gateway with an empty target node id within reach, the valid one
         \* cut off
         MapData(id, <<a, Gateway("b", next, ""), Gateway("c", next, "a")>>, AdjCut),
         \* a gateway without descriptor and one with an empty target map id,
         \* next to a valid one
         MapData(id, <<a, Node("b", "GATEWAY", None), Gateway("c", next, "a"),
                       Gateway("d", "", "a")>>, AdjLine),
         \* gateways in both directions
         MapData(id, <<a, Gateway("b", prev, "a"), Gateway("c", next, "a")>>, AdjLine),
         \* no gateway and no edge
         MapData(id, <<a, Node("b", "ROOM", None), Node("c", "NORMAL", None)>>,
                 EmptyAdjacency) }

MapArgs == MapIds \cup {NoSuchMap}
NodeArgs == NodeIds \cup {NoSuchNode}

\* the requests: every combination of ids, and each argument empty in turn
Requests ==
    {Request(sm, sn, em, en) : sm \in MapArgs, sn \in NodeArgs,
                               em \in MapArgs, en \in NodeArgs}
    \cup {Request("", "a", "M2", "c"), Request("M1", "", "M2", "c"),
          Request("M1", "a", "", "c"), Request("M1", "a", "M2", "")}

\* mockMapsById[id] ?? null
getMap(id) == IF id \in DOMAIN store THEN Some(store[id]) ELSE None

\* what the collaborator promises reject with when they do
FetchError == ThrowOther(<<"Failed to fetch">>)

Init ==
    /\ \E m1 \in Layouts("M1"), m2 \in Layouts("M2"), m3 \in Layouts("M3") :
         store = ("M1" :> m1) @@ ("M2" :> m2) @@ ("M3" :> m3)
    /\ LibIdle
    /\ NavIdle
    /\ AuxIdle

\* mutant of MissingParameter: the last argument is not looked at
MissingParameter_EndNodeUnchecked(r) ==
    r.startMapId = "" \/ r.startNodeId = "" \/ r.endMapId = ""

\* !startMapId || !startNodeId || !endMapId || !endNodeId
MissingParameter(r) ==
    r.startMapId = "" \/ r.startNodeId = "" \/ r.endMapId = "" \/ r.endNodeId = ""

\* the try block's end: the result returned, or the catch block's result
Finish(error) ==
    /\ pc' = "done"
    /\ thrown' = Some(error)
    /\ result' = CatchBlock(error).result
    /\ escaped' = CatchBlock(error).escaped

\* generateNavigationPath is called with the request r: validation, then
\* `await getAllMaps()`
StartRequest(r) ==
    /\ pc = "idle"
    /\ req' = r
    /\ IF MissingParameter(r)
       THEN /\ Finish(Throw("INVALID_INPUT", <<"All parameters are required">>))
            /\ UNCHANGED calls
       ELSE /\ pc' = "awaitAllMaps"
            /\ calls' = Append(calls, <<"getAllMaps">>)
            /\ UNCHANGED <<thrown, result, escaped>>
    /\ UNCHANGED <<store, libVars, mapChain, hop, segments, entry>>
    /\ UNCHANGED auxVars

Start == pc = "idle" /\ \E r \in Requests : StartRequest(r)

\* what follows findMapChain, given the chain it returned or the error it threw
AfterChain(chain) ==
    IF chain.tag = "throw"
    THEN /\ Finish(chain)
         /\ UNCHANGED <<mapChain, hop, entry, calls>>
    ELSE /\ mapChain' = chain.value
         /\ hop' = 1
         /\ entry' = req.startNodeId
         /\ calls' = Append(calls, <<"getMap", chain.value[1]>>)
         /\ pc' = "awaitMap"
         /\ UNCHANGED <<thrown, result, escaped>>

\* getAllMaps resolves: findMapChain, then the first `await getMap(...)`
AllMapsResolve ==
    /\ pc = "awaitAllMaps"
    /\ AfterChain(findMapChain(req.startMapId, req.endMapId, AllMapsOf(store)))
    /\ UNCHANGED <<store, libVars, req, segments>>
    /\ UNCHANGED auxVars

\* getAllMaps rejects
AllMapsReject ==
    /\ pc = "awaitAllMaps"
    /\ Finish(FetchError)
    /\ UNCHANGED <<store, libVars, req, mapChain, hop, segments, entry, calls>>
    /\ UNCHANGED auxVars

\* mutant of AfterHop: a hop that failed fetches its map once more
AfterHop_FetchesAgain(out) ==
    IF out.tag = "throw"
    THEN /\ Finish(out)
         /\ calls' = Append(calls, <<"getMap", mapChain[hop]>>)
         /\ UNCHANGED <<hop, segments, entry>>
    ELSE /\ segments' = Append(segments, out.value.segment)
         /\ entry' = out.value.entry
         /\ IF hop = Len(mapChain)
            THEN /\ pc' = "done"
                 /\ result' = Some(SuccessResult(mapChain, segments'))
                 /\ UNCHANGED <<hop, thrown, escaped, calls>>
            ELSE /\ hop' = hop + 1
                 /\ calls' = Append(calls, <<"getMap", mapChain[hop + 1]>>)
                 /\ UNCHANGED <<pc, thrown, result, escaped>>

\* what follows the loop body, given the error it threw or what it pushed
AfterHop(out) ==
    IF out.tag = "throw"
    THEN /\ Finish(out)
         /\ UNCHANGED <<hop, segments, entry, calls>>
    ELSE /\ segments' = Append(segments, out.value.segment)
         /\ entry' = out.value.entry
         /\ IF hop = Len(mapChain)
            THEN /\ pc' = "done"
                 /\ result' = Some(SuccessResult(mapChain, segments'))
                 /\ UNCHANGED <<hop, thrown, escaped, calls>>
            ELSE /\ hop' = hop + 1
                 /\ calls' = Append(calls, <<"getMap", mapChain[hop + 1]>>)
                 /\ UNCHANGED <<pc, thrown, result, escaped>>

\* getMap resolves: the rest of this loop iteration, then either the next
\* `await getMap(...)` or the totals and the return
MapResolve ==
    /\ pc = "awaitMap"
    /\ AfterHop(HopBody(getMap(mapChain[hop]), mapChain, hop, entry, req.endNodeId))
    /\ UNCHANGED <<store, libVars, req, mapChain>>
    /\ UNCHANGED auxVars

\* getMap rejects
MapReject ==
    /\ pc = "awaitMap"
    /\ Finish(FetchError)
    /\ UNCHANGED <<store, libVars, req, mapChain, hop, segments, entry, calls>>
    /\ UNCHANGED auxVars

\* the caller hands a result to validateNavigationResult
CallValidateNavigationResult ==
    /\ fn = ""
    /\ result # None
    /\ fn' = "validateNavigationResult"
    /\ args' = <<result[1]>>
    /\ ret' = Some(Return(validateNavigationResult(result[1])))
    /\ UNCHANGED <<store, navVars>>
    /\ UNCHANGED auxVars

Next ==
    \/ Start
    \/ AllMapsResolve
    \/ AllMapsReject
    \/ MapResolve
    \/ MapReject
    \/ CallValidateNavigationResult

Spec == Init /\ [][Next]_vars

(***************************************************************************)
(* Claims about generateNavigationPath                                     *)
(***************************************************************************)
Done == pc = "done"
Succeeded == Done /\ result # None /\ result[1].success
Failed == Done /\ thrown # None
Last(seq) == seq[Len(seq)]

(***************************************************************************)
(* C1. In every successful result, each non-final segment's transition     *)
(* target names the next segment's map and the first node of its path.     *)
(***************************************************************************)
C1_SegmentsAreContinuous ==
    Succeeded =>
      LET segs == result[1].segments
      IN \A i \in 1..Len(segs) - 1 :
           /\ segs[i].transitionTarget # None
           /\ segs[i].transitionTarget[1].mapId = segs[i + 1].mapId
           /\ segs[i + 1].pathNodeIds[1] = segs[i].transitionTarget[1].nodeId

\* three segments, and a gateway whose target node id differs from its own id
C1_Witness ==
    /\ Succeeded
    /\ Len(result[1].segments) = 3
    /\ \E i \in 1..2 :
         result[1].segments[i].transitionTarget[1].nodeId
           # Last(result[1].segments[i].pathNodeIds)

(***************************************************************************)
(* C2. In every successful result the first segment is on the start map    *)
(* and its path begins at the start node; the last segment is on the end   *)
(* map and its path ends at the end node.                                  *)
(***************************************************************************)
C2_EndpointsAreTheRequested ==
    Succeeded =>
      LET segs == result[1].segments
      IN /\ Len(segs) >= 1
         /\ segs[1].mapId = req.startMapId
         /\ segs[1].pathNodeIds[1] = req.startNodeId
         /\ Last(segs).mapId = req.endMapId
         /\ Last(Last(segs).pathNodeIds) = req.endNodeId

\* several maps, and a walk of more than one node on the first and the last
C2_Witness ==
    /\ Succeeded
    /\ Len(result[1].segments) >= 2
    /\ Len(result[1].segments[1].pathNodeIds) >= 2
    /\ Len(Last(result[1].segments).pathNodeIds) >= 2

(***************************************************************************)
(* C3. In every successful result the final segment has no transition      *)
(* target, every other segment has one, and every path is non-empty.       *)
(***************************************************************************)
C3_OnlyTheLastSegmentEndsTheRoute ==
    Succeeded =>
      LET segs == result[1].segments
      IN /\ Len(segs) >= 1
         /\ Last(segs).transitionTarget = None
         /\ \A i \in 1..Len(segs) - 1 : segs[i].transitionTarget # None
         /\ \A i \in 1..Len(segs) : Len(segs[i].pathNodeIds) >= 1

\* three segments, one of them a single node
C3_Witness ==
    /\ Succeeded
    /\ Len(result[1].segments) = 3
    /\ \E i \in 1..3 : Len(result[1].segments[i].pathNodeIds) = 1

(***************************************************************************)
(* C4. Whenever a step of generateNavigationPath fails, the result has     *)
(* success = false, no segments, totalMaps = 0, totalNodes = 0 and an      *)
(* error message, also when segments had been built before the failure.    *)
(***************************************************************************)
C4_FailureExposesNothing ==
    Failed =>
      /\ result # None
      /\ ~result[1].success
      /\ result[1].segments = <<>>
      /\ result[1].totalMaps = 0
      /\ result[1].totalNodes = 0
      /\ result[1].error # None

\* gateway selection failed at a later hop, after a segment had been built
C4_Witness ==
    /\ Failed
    /\ thrown[1].code = "GATEWAY_NOT_FOUND"
    /\ Len(segments) >= 1
    /\ result[1].segments = <<>>

(***************************************************************************)
(* C5. generateNavigationPath never lets an error escape: once it is done  *)
(* there is a result, and every error thrown inside it, a PathfinderError  *)
(* or any other, has become a failure that carries the error's message.    *)
(***************************************************************************)
C5_EveryErrorBecomesAResult ==
    /\ escaped = None
    /\ Done =>
         /\ result # None
         /\ thrown # None =>
              /\ ~result[1].success
              /\ result[1].error = Some(thrown[1].message)

\* getMap rejected at a later hop with an error that is no PathfinderError
C5_Witness ==
    /\ Failed
    /\ thrown[1].name = "Error"
    /\ Len(segments) >= 1
    /\ result # None /\ ~result[1].success

(***************************************************************************)
(* C13. A node of type GATEWAY whose descriptor is missing or has an empty *)
(* target map id or target node id is no gateway to the resolver: it adds  *)
(* no hop to a map chain, it is no candidate of findBestGateway, and no    *)
(* segment's transition goes through it.                                   *)
(***************************************************************************)
Malformed(node) ==
    /\ node.type = "GATEWAY"
    /\ \/ node.gatewayConfig = None
       \/ node.gatewayConfig[1].targetMapId = ""
       \/ node.gatewayConfig[1].targetNodeId = ""

\* the node of a map that has the given id
NodeOf(mapData, id) == CHOOSE n \in Range(mapData.nodes) : n.id = id

C13_MalformedGatewaysAreIgnored ==
    /\ \A k \in 1..Len(mapChain) - 1 :
         \E n \in Range(store[mapChain[k]].nodes) :
            /\ n.type = "GATEWAY" /\ ~Malformed(n)
            /\ n.gatewayConfig[1].targetMapId = mapChain[k + 1]
    /\ \A k \in 1..Len(mapChain) - 1 :
         \A g \in Range(findAllGatewaysToMap(store[mapChain[k]], mapChain[k + 1])) :
            ~Malformed(g)
    /\ \A k \in 1..Len(segments) :
         segments[k].transitionTarget # None =>
           LET through == NodeOf(store[segments[k].mapId], Last(segments[k].pathNodeIds))
           IN /\ ~Malformed(through)
              /\ segments[k].transitionTarget[1].mapId # ""
              /\ segments[k].transitionTarget[1].nodeId # ""

\* a route was found that walks over a malformed gateway to reach a valid one
C13_Witness ==
    /\ Succeeded
    /\ \E k \in 1..Len(segments) :
         /\ segments[k].transitionTarget # None
         /\ \E j \in 1..Len(segments[k].pathNodeIds) - 1 :
              Malformed(NodeOf(store[segments[k].mapId], segments[k].pathNodeIds[j]))

(***************************************************************************)
(* C14. Claim as stated: the gateway findBestGateway selects is a valid    *)
(* gateway to the next map that is reachable from the entry node, and its  *)
(* minimum walk weight from the entry node is no greater than that of any  *)
(* other reachable candidate.                                              *)
(***************************************************************************)
\* the valid gateways of a map toward targetMapId that the entry node reaches
UsableGateways(mapData, entryNodeId, targetMapId) ==
    {g \in Range(mapData.nodes) :
       /\ ValidGateway(g)
       /\ g.gatewayConfig[1].targetMapId = targetMapId
       /\ Reachable(mapData, entryNodeId, g.id)}

\* the hop a pushed segment records: its map, entry node, gateway and target
SelectedIsNearest(seg) ==
    LET mapData == store[seg.mapId]
        entryNodeId == seg.pathNodeIds[1]
        selected == Last(seg.pathNodeIds)
        usable == UsableGateways(mapData, entryNodeId, seg.transitionTarget[1].mapId)
    IN /\ selected \in {g.id : g \in usable}
       /\ \A g \in usable :
            MinWalkWeight(mapData, entryNodeId, selected)
              <= MinWalkWeight(mapData, entryNodeId, g.id)

C14_BestGatewayIsNearest ==
    \A k \in 1..Len(segments) :
       segments[k].transitionTarget # None => SelectedIsNearest(segments[k])

\* the same, on maps without parallel edges (not a claim; kept as a cross-check)
BestGatewayIsNearestWithoutParallelEdges ==
    \A k \in 1..Len(segments) :
       (segments[k].transitionTarget # None
          /\ ~HasParallelEdges(store[segments[k].mapId]))
       => SelectedIsNearest(segments[k])

(***************************************************************************)
(* C15. At a hop that is not the last of the chain, generateNavigationPath *)
(* fails with GATEWAY_NOT_FOUND, naming the current and the next map,      *)
(* exactly when the current map has no valid gateway to the next map that  *)
(* the entry node reaches.                                                 *)
(***************************************************************************)
AtNonFinalHop == mapChain # <<>> /\ hop < Len(mapChain)

C15_GatewayNotFoundIffNoneUsable ==
    /\ (Failed /\ thrown[1].code = "GATEWAY_NOT_FOUND") =>
         /\ AtNonFinalHop
         /\ UsableGateways(store[mapChain[hop]], entry, mapChain[hop + 1]) = {}
         /\ thrown[1].message
              = <<"No gateway found from map to map", mapChain[hop], mapChain[hop + 1]>>
    \* a hop that got its map and did not fail had a usable gateway
    /\ \A k \in 1..Len(segments) :
         k < Len(mapChain) =>
           UsableGateways(store[mapChain[k]], segments[k].pathNodeIds[1],
                          mapChain[k + 1]) # {}
    \* a hop that got its map and failed, failed with GATEWAY_NOT_FOUND
    /\ (Failed /\ AtNonFinalHop /\ thrown[1] # FetchError) =>
         thrown[1].code = "GATEWAY_NOT_FOUND"

\* at a later hop the map has a valid gateway to the next map, out of reach
C15_Witness ==
    /\ Failed /\ thrown[1].code = "GATEWAY_NOT_FOUND"
    /\ Len(segments) >= 1
    /\ entry \in NodeIdSet(store[mapChain[hop]])
    /\ \E g \in Range(store[mapChain[hop]].nodes) :
         ValidGateway(g) /\ g.gatewayConfig[1].targetMapId = mapChain[hop + 1]

(***************************************************************************)
(* C16. Every segment that is not the last one ends at a valid gateway     *)
(* node of its map, its transition target is that gateway's descriptor,    *)
(* and the next hop enters at the descriptor's target node.  (Stated on    *)
(* the segments as they are pushed; a successful result returns them.)     *)
(***************************************************************************)
C16_TransitionIsTheGatewaysDescriptor ==
    /\ Succeeded => result[1].segments = segments
    /\ \A k \in 1..Len(segments) :
         segments[k].transitionTarget # None =>
           /\ Last(segments[k].pathNodeIds) \in NodeIdSet(store[segments[k].mapId])
           /\ LET gateway == NodeOf(store[segments[k].mapId],
                                    Last(segments[k].pathNodeIds))
              IN /\ ValidGateway(gateway)
                 /\ segments[k].transitionTarget[1].mapId
                      = gateway.gatewayConfig[1].targetMapId
                 /\ segments[k].transitionTarget[1].nodeId
                      = gateway.gatewayConfig[1].targetNodeId
                 /\ IF k < Len(segments)
                    THEN segments[k + 1].pathNodeIds[1]
                           = gateway.gatewayConfig[1].targetNodeId
                    ELSE entry = gateway.gatewayConfig[1].targetNodeId

\* a successful route whose first map offers two reachable gateways with
\* different descriptors
C16_Witness ==
    /\ Succeeded
    /\ Len(segments) >= 2
    /\ \E g, h \in UsableGateways(store[segments[1].mapId], segments[1].pathNodeIds[1],
                                  segments[2].mapId) :
         g.gatewayConfig # h.gatewayConfig

(***************************************************************************)
(* C17. If one of the four identifiers is empty, generateNavigationPath    *)
(* returns the INVALID_INPUT failure without having called getAllMaps or   *)
(* getMap.                                                                 *)
(***************************************************************************)
AnEmptyIdentifier ==
    /\ req # <<>>
    /\ "" \in {req.startMapId, req.startNodeId, req.endMapId, req.endNodeId}

C17_EmptyIdentifierFailsBeforeAnyFetch ==
    AnEmptyIdentifier =>
      /\ Done
      /\ calls = <<>>
      /\ thrown = Some(Throw("INVALID_INPUT", <<"All parameters are required">>))
      /\ result # None /\ ~result[1].success
      /\ result[1].error = Some(<<"All parameters are required">>)

\* only the last identifier is empty
C17_Witness ==
    /\ AnEmptyIdentifier /\ Done
    /\ req.startMapId # "" /\ req.startNodeId # "" /\ req.endMapId # ""
    /\ req.endNodeId = ""
    /\ calls = <<>>

\* a call with four identifiers does reach the collaborators (not a claim)
FetchesOtherwise ==
    (Done /\ ~AnEmptyIdentifier) => calls # <<>>

(***************************************************************************)
(* C18. In every successful result totalMaps is the length of the map      *)
(* chain and the number of segments, and totalNodes is the number of       *)
(* positions of all segment paths together: a node at a transition counts  *)
(* in both segments.                                                       *)
(***************************************************************************)
\* every position of every path of a result
PathPositions(segs) ==
    UNION {{<<i, j>> : j \in 1..Len(segs[i].pathNodeIds)} : i \in 1..Len(segs)}

C18_TotalsCountMapsAndPathPositions ==
    Succeeded =>
      /\ result[1].totalMaps = Len(mapChain)
      /\ result[1].totalMaps = Len(result[1].segments)
      /\ result[1].totalNodes = Cardinality(PathPositions(result[1].segments))

\* three maps; one segment ends at a node with the id the next one starts at
C18_Witness ==
    /\ Succeeded
    /\ result[1].totalMaps = 3
    /\ \E i \in 1..2 :
         Last(result[1].segments[i].pathNodeIds)
           = result[1].segments[i + 1].pathNodeIds[1]
    /\ result[1].totalNodes >= 5

(***************************************************************************)
(* SpecValidate: NavigationResult values put together segment by segment,  *)
(* well-formed or not, and calls of validateNavigationResult on them       *)
(***************************************************************************)
HandPaths == {<<>>, <<"a">>, <<"b">>, <<"a", "b">>}
HandTargets == {None} \cup {Some([mapId |-> m, nodeId |-> n]) :
                              <<m, n>> \in {<<"M1", "a">>, <<"M2", "a">>, <<"M2", "b">>}}
HandSegments ==
    {Segment(m, path, target) : m \in {"M1", "M2"}, path \in HandPaths,
                                target \in HandTargets}

HandBuilt(success, segs) ==
    [success |-> success, totalMaps |-> Len(segs), totalNodes |-> TotalNodes(segs),
     segments |-> segs, error |-> None]

InitValidate ==
    /\ store = <<>>
    /\ LibIdle
    /\ pc = "idle" /\ req = <<>> /\ mapChain = <<>> /\ hop = 0 /\ segments = <<>>
    /\ entry = "" /\ thrown = None /\ escaped = None /\ calls = <<>>
    /\ \E success \in BOOLEAN : result = Some(HandBuilt(success, <<>>))
    /\ AuxIdle

AppendSegment ==
    /\ fn = ""
    /\ Len(result[1].segments) < MaxSegments
    /\ \E seg \in HandSegments :
         result' = Some(HandBuilt(result[1].success, Append(result[1].segments, seg)))
    /\ UNCHANGED <<store, libVars, pc, req, mapChain, hop, segments, entry, thrown,
                   escaped, calls>>
    /\ UNCHANGED auxVars

NextValidate == AppendSegment \/ CallValidateNavigationResult

SpecValidate == InitValidate /\ [][NextValidate]_vars

CalledValidate == fn = "validateNavigationResult"
Accepted == CalledValidate /\ ret[1].value = TRUE

\* the transitions of a result line up and its last segment ends the route
TransitionsLineUp(segs) ==
    /\ \A i \in 1..Len(segs) - 1 :
         /\ segs[i].transitionTarget # None
         /\ segs[i].transitionTarget[1].mapId = segs[i + 1].mapId
         /\ Len(segs[i + 1].pathNodeIds) >= 1
         /\ segs[i + 1].pathNodeIds[1] = segs[i].transitionTarget[1].nodeId
    /\ segs # <<>> => Last(segs).transitionTarget = None

(***************************************************************************)
(* C19. Claim as stated: validateNavigationResult returns true only for    *)
(* results in which every segment's path, the first segment's included,    *)
(* has at least one node, every non-final segment's transition target is   *)
(* the next segment's map and first node, and the final segment has no     *)
(* transition target; it returns false for every other result.             *)
(***************************************************************************)
C19_AcceptedResultsAreWellFormed ==
    Accepted =>
      /\ \A i \in 1..Len(args[1].segments) : Len(args[1].segments[i].pathNodeIds) >= 1
      /\ TransitionsLineUp(args[1].segments)

\* what the code decides (not a claim; kept as a cross-check): it accepts
\* exactly the successful, non-empty results whose transitions line up, and
\* never looks at the length of the first segment's path
AcceptedIffTransitionsLineUp ==
    CalledValidate =>
      (Accepted <=> /\ args[1].success
                    /\ args[1].segments # <<>>
                    /\ TransitionsLineUp(args[1].segments))

(***************************************************************************)
(* C20. validateNavigationResult accepts every result of a successful      *)
(* generateNavigationPath call and rejects every failure result.           *)
(***************************************************************************)
C20_ValidatorAgreesWithTheAssembler ==
    (CalledValidate /\ Done) => (ret[1].value = result[1].success)

\* a successful route over three maps was handed to the validator and accepted
C20_Witness ==
    /\ CalledValidate /\ Succeeded
    /\ Len(result[1].segments) = 3
    /\ ret[1].value = TRUE

(***************************************************************************)
(* C21. Claim as stated: a request whose start node id is not a node of    *)
(* the start map, once it reaches local routing, is never successful and   *)
(* fails with NODE_NOT_FOUND, on one map (start node id = end node id      *)
(* included) and on several maps alike.                                    *)
(***************************************************************************)
\* the chain was found and the start map was fetched, with a start node id
\* that the start map does not have
StartNodeAbsent ==
    /\ Done /\ mapChain # <<>>
    /\ thrown # Some(FetchError)
    /\ req.startMapId \in DOMAIN store
    /\ req.startNodeId \notin NodeIdSet(store[req.startMapId])

C21_AbsentStartNodeFailsNodeNotFound ==
    StartNodeAbsent => (Failed /\ thrown[1].code = "NODE_NOT_FOUND")

\* what the code does there (not a claim; kept as a cross-check): success
\* for start = end on one map, NODE_NOT_FOUND on one map otherwise, and
\* GATEWAY_NOT_FOUND on several maps
AbsentStartNodeOutcomes ==
    StartNodeAbsent =>
      IF req.startMapId = req.endMapId
      THEN IF req.startNodeId = req.endNodeId
           THEN Succeeded /\ result[1].segments[1].pathNodeIds = <<req.startNodeId>>
           ELSE Failed /\ thrown[1].code = "NODE_NOT_FOUND"
      ELSE Failed /\ thrown[1].code = "GATEWAY_NOT_FOUND"

(***************************************************************************)
(* C22. Within one generateNavigationPath call, getAllMaps is called once  *)
(* and first; getMap is then called for the chain's maps in chain order,   *)
(* each call only after the segment of the map before it was built, once   *)
(* per chain element when the call succeeds, and never again after a hop   *)
(* failed.                                                                 *)
(***************************************************************************)
C22_FetchesAreSequentialInChainOrder ==
    /\ Len(calls) <= 1 + Len(mapChain)
    /\ calls # <<>> => calls[1] = <<"getAllMaps">>
    /\ \A k \in 2..Len(calls) : calls[k] = <<"getMap", mapChain[k - 1]>>
    /\ Len(calls) >= 2 => Len(calls) - 1 <= Len(segments) + 1
    /\ Succeeded => Len(calls) = 1 + Len(mapChain)
    /\ (Failed /\ Len(calls) >= 2) => Len(calls) - 1 = Len(segments) + 1

\* the second hop of a chain of three maps failed: two getMap calls, no third
C22_Witness ==
    /\ Failed
    /\ Len(mapChain) = 3
    /\ Len(segments) = 1
    /\ calls = <<<<"getAllMaps">>, <<"getMap", mapChain[1]>>, <<"getMap", mapChain[2]>>>>

(***************************************************************************)
(* SpecTwo: two generateNavigationPath calls under way at once.  The event *)
(* loop runs one continuation at a time: pc .. calls are the locals of the *)
(* request that runs, `other` holds those of the one that waits, and       *)
(* Switch hands the turn over at an await.                                 *)
(***************************************************************************)
Locals ==
    [pc |-> pc, req |-> req, mapChain |-> mapChain, hop |-> hop,
     segments |-> segments, entry |-> entry, thrown |-> thrown, result |-> result,
     escaped |-> escaped, calls |-> calls]

IdleLocals ==
    [pc |-> "idle", req |-> <<>>, mapChain |-> <<>>, hop |-> 0, segments |-> <<>>,
     entry |-> "", thrown |-> None, result |-> None, escaped |-> None,
     calls |-> <<>>]

\* the collections and the requests of the two callers
SharedLayouts(id) == {m \in Layouts(id) : m.adjacencyList \in {AdjFork, AdjCut}}
SharedRequests ==
    {Request("M1", "a", "M3", "b"), Request("M1", "a", "M2", "a"),
     Request("M2", "b", "M2", "a"), Request("M3", "a", "M1", NoSuchNode),
     Request("M1", "", "M2", "c"), Request(NoSuchMap, "a", "M1", "a")}

InitTwo ==
    /\ \E m1 \in SharedLayouts("M1"), m2 \in SharedLayouts("M2"),
          m3 \in SharedLayouts("M3") :
         store = ("M1" :> m1) @@ ("M2" :> m2) @@ ("M3" :> m3)
    /\ LibIdle
    /\ NavIdle
    /\ running = 1
    /\ other = IdleLocals
    /\ writes = 0 /\ bfs = <<>> /\ ui = <<>>
    /\ cached = <<>> /\ attempts = <<>> /\ callers = <<>>

StartShared == pc = "idle" /\ \E r \in SharedRequests : StartRequest(r)

\* mutant of Switch: `segments` is one array shared by both requests
Switch_SharedSegments ==
    /\ running' = 3 - running
    /\ other' = Locals
    /\ pc' = other.pc /\ req' = other.req /\ mapChain' = other.mapChain
    /\ hop' = other.hop /\ entry' = other.entry
    /\ thrown' = other.thrown /\ result' = other.result /\ escaped' = other.escaped
    /\ calls' = other.calls
    /\ UNCHANGED <<segments, store, libVars, writes, bfs, ui, cached, attempts, callers>>

\* the request that runs reaches an await (or its end) and the other one's
\* continuation is next
Switch ==
    /\ running' = 3 - running
    /\ other' = Locals
    /\ pc' = other.pc /\ req' = other.req /\ mapChain' = other.mapChain
    /\ hop' = other.hop /\ segments' = other.segments /\ entry' = other.entry
    /\ thrown' = other.thrown /\ result' = other.result /\ escaped' = other.escaped
    /\ calls' = other.calls
    /\ UNCHANGED <<store, libVars, writes, bfs, ui, cached, attempts, callers>>

NextTwo ==
    \/ StartShared
    \/ AllMapsResolve
    \/ AllMapsReject
    \/ MapResolve
    \/ MapReject
    \/ Switch

SpecTwo == InitTwo /\ [][NextTwo]_vars

\* C23 -- what generateNavigationPath(r) returns when it runs by itself over
\* the collection and every fetch resolves: the same statements, run to the end
RECURSIVE HopsAlone(_, _, _, _, _)
RECURSIVE HopsAloneAfter(_, _, _, _, _)
HopsAloneAfter(r, chain, i, segs, out) ==
    IF out.tag = "throw" THEN CatchBlock(out).result[1]
    ELSE IF i = Len(chain)
    THEN SuccessResult(chain, Append(segs, out.value.segment))
    ELSE HopsAlone(r, chain, i + 1, out.value.entry, Append(segs, out.value.segment))

HopsAlone(r, chain, i, currentEntryNodeId, segs) ==
    HopsAloneAfter(r, chain, i, segs,
                   HopBody(getMap(chain[i]), chain, i, currentEntryNodeId, r.endNodeId))

ChainAlone(r, chain) ==
    IF chain.tag = "throw" THEN CatchBlock(chain).result[1]
    ELSE HopsAlone(r, chain.value, 1, r.startNodeId, <<>>)

ResolvedAlone(r) ==
    IF MissingParameter(r)
    THEN FailureResult(<<"All parameters are required">>)
    ELSE ChainAlone(r, findMapChain(r.startMapId, r.endMapId, AllMapsOf(store)))

\* the locals of a finished request hold what the request returns alone, or
\* the failure of the fetch of its own that rejected
SameAsAlone(l) ==
    l.pc = "done" =>
        /\ l.escaped = None
        /\ IF l.thrown = Some(FetchError)
           THEN l.result = Some(FailureResult(FetchError.message))
           ELSE l.result = Some(ResolvedAlone(l.req))

\* cross-check under Spec: one request by itself returns ResolvedAlone
AloneIsResolvedAlone == SameAsAlone(Locals)

\* C23: however the awaits of two generateNavigationPath requests interleave
\* over the same collection, each request returns exactly what it returns when
\* run alone, and no step of either request changes a map
C23_ConcurrentRequestsAreIndependent ==
    /\ [](SameAsAlone(Locals) /\ SameAsAlone(other))
    /\ [][store' = store]_vars

\* a request finished with a route over two maps or more while the other
\* request was past its first hop and waiting for a map
C23_Witness ==
    /\ Succeeded
    /\ Len(segments) >= 2
    /\ other.pc = "awaitMap"
    /\ other.hop >= 2
    /\ other.req # req

(***************************************************************************)
(* SpecBFS: findMapChain one loop iteration at a time.  bfs holds the      *)
(* call's locals and a log of what the loop did: <<"expand", id>> when id  *)
(* is added to visited and its neighbours are scanned, <<"push", id>> when *)
(* an entry for id is pushed on the queue.                                 *)
(***************************************************************************)
BfsIdle ==
    [pc |-> "idle", startMapId |-> "", endMapId |-> "", metaGraph |-> <<>>,
     queue |-> <<>>, visited |-> {}, log |-> <<>>, ret |-> None]

\* the gateways an edit may add: to a map of the collection (the own map
\* included) or to a map that is not in it
BfsNodeKinds ==
    {[type |-> "GATEWAY", gatewayConfig |-> Some(GatewayConfig(t, "a"))] :
        t \in MapIds \cup {NoSuchMap}}
    \cup {[type |-> "GATEWAY", gatewayConfig |-> None]}

InitBFS ==
    /\ store = [id \in MapIds |->
                  MapData(id, <<Node("a", "NORMAL", None)>>, EmptyAdjacency)]
    /\ LibIdle
    /\ NavIdle
    /\ running = 0 /\ other = <<>> /\ writes = 0
    /\ bfs = BfsIdle
    /\ ui = <<>> /\ cached = <<>> /\ attempts = <<>> /\ callers = <<>>

BfsAddGatewayNode ==
    /\ bfs.pc = "idle"
    /\ AddedCount(store) < MaxGateways
    /\ \E id \in MapIds, kind \in BfsNodeKinds :
         store' = [store EXCEPT ![id] = WithNode(@, kind)]
    /\ UNCHANGED <<libVars, navVars, auxVars>>

\* findMapChain up to the loop: the same-map case, the meta-graph, the two
\* validations, the queue with its first entry
BfsEnter(startMapId, endMapId, metaGraph) ==
    IF startMapId = endMapId
    THEN [BfsIdle EXCEPT !.pc = "returned", !.startMapId = startMapId,
                         !.endMapId = endMapId,
                         !.ret = Some(Return(<<startMapId>>))]
    ELSE IF ~HasKey(metaGraph, startMapId)
    THEN [BfsIdle EXCEPT !.pc = "threw", !.startMapId = startMapId,
                         !.endMapId = endMapId, !.metaGraph = metaGraph,
                         !.ret = Some(Throw("MAP_NOT_FOUND",
                                            <<"Start map not found", startMapId>>))]
    ELSE IF ~HasKey(metaGraph, endMapId)
    THEN [BfsIdle EXCEPT !.pc = "threw", !.startMapId = startMapId,
                         !.endMapId = endMapId, !.metaGraph = metaGraph,
                         !.ret = Some(Throw("MAP_NOT_FOUND",
                                            <<"End map not found", endMapId>>))]
    ELSE [BfsIdle EXCEPT !.pc = "loop", !.startMapId = startMapId,
                         !.endMapId = endMapId, !.metaGraph = metaGraph,
                         !.queue = <<[mapId |-> startMapId, path |-> <<startMapId>>]>>,
                         !.log = <<<<"push", startMapId>>>>]

BfsCall ==
    /\ bfs.pc = "idle"
    /\ \E startMapId \in {"M1", NoSuchMap}, endMapId \in MapIds \cup {NoSuchMap} :
         bfs' = BfsEnter(startMapId, endMapId, buildMapMetaGraph(AllMapsOf(store)))
    /\ UNCHANGED <<store, libVars, navVars, running, other, writes, ui, cached,
                   attempts, callers>>

\* mutant of MarkVisited: the id is not remembered
MarkVisited_Forgets(visited, mapId) == visited

\* visited.add(current.mapId)
MarkVisited(visited, mapId) == visited \cup {mapId}

\* the entries the for loop pushed, as log events
RECURSIVE Pushed(_)
Pushed(entries) ==
    IF entries = <<>> THEN <<>>
    ELSE <<<<"push", Head(entries).mapId>>>> \o Pushed(Tail(entries))

\* the rest of an iteration whose entry is expanded, given the queue the for
\* loop leaves
BfsExpanded(current, rest, seen, queue) ==
    [bfs EXCEPT !.visited = seen, !.queue = queue,
                !.log = bfs.log \o <<<<"expand", current.mapId>>>>
                        \o Pushed(SubSeq(queue, Len(rest) + 1, Len(queue)))]

\* one iteration of while (queue.length > 0), given the entry shifted off
BfsBody(current, rest) ==
    IF current.mapId = bfs.endMapId
    THEN [bfs EXCEPT !.pc = "returned", !.queue = rest,
                     !.ret = Some(Return(current.path))]
    ELSE IF current.mapId \in bfs.visited
    THEN [bfs EXCEPT !.queue = rest]
    ELSE BfsExpanded(current, rest, MarkVisited(bfs.visited, current.mapId),
                     EnqueueUnvisited(rest, MarkVisited(bfs.visited, current.mapId),
                                      current,
                                      ConnectedMaps(bfs.metaGraph, current.mapId)))

BfsIterate ==
    /\ bfs.pc = "loop"
    /\ bfs.queue # <<>>
    /\ bfs' = BfsBody(Dequeue(bfs.queue).current, Dequeue(bfs.queue).rest)
    /\ UNCHANGED <<store, libVars, navVars, running, other, writes, ui, cached,
                   attempts, callers>>

\* the queue is empty: throw new PathfinderError(..., "NO_PATH")
BfsExhausted ==
    /\ bfs.pc = "loop"
    /\ bfs.queue = <<>>
    /\ bfs' = [bfs EXCEPT !.pc = "threw",
                 !.ret = Some(Throw("NO_PATH", <<"No route exists from map to map",
                                                 bfs.startMapId, bfs.endMapId>>))]
    /\ UNCHANGED <<store, libVars, navVars, running, other, writes, ui, cached,
                   attempts, callers>>

NextBFS == BfsAddGatewayNode \/ BfsCall \/ BfsIterate \/ BfsExhausted

\* the loop is synchronous code: an iteration that can run does run
SpecBFS ==
    /\ InitBFS
    /\ [][NextBFS]_vars
    /\ WF_vars(BfsIterate)
    /\ WF_vars(BfsExhausted)

BfsEnded == bfs.pc \in {"returned", "threw"}

\* cross-check: the loop taken step by step ends with what findMapChain gives
BfsEndsAsFindMapChain ==
    BfsEnded =>
        bfs.ret = Some(findMapChain(bfs.startMapId, bfs.endMapId, AllMapsOf(store)))

Expansions == {k \in 1..Len(bfs.log) : bfs.log[k][1] = "expand"}
Pushes == {k \in 1..Len(bfs.log) : bfs.log[k][1] = "push"}

ExpandedAtMostOnce ==
    \A j, k \in Expansions : bfs.log[j][2] = bfs.log[k][2] => j = k

VisitedNeverReEnqueued ==
    \A k \in Pushes : \A j \in Expansions : bfs.log[j][2] = bfs.log[k][2] => k < j

\* C24: in findMapChain's loop every map id is expanded at most once and an
\* id that was expanded is never pushed on the queue again, and the loop,
\* once entered, ends (it returns a chain or throws) on every collection:
\* gateway cycles, gateways to their own map and gateways to maps that are
\* not in the collection included
C24_BfsExpandsOnceAndTerminates ==
    /\ [](ExpandedAtMostOnce /\ VisitedNeverReEnqueued)
    /\ (bfs.pc = "loop") ~> BfsEnded

\* the search ended without a route after it expanded a map that is not in
\* the collection and met a gateway back to a map it had expanded before
C24_Witness ==
    /\ bfs.pc = "threw"
    /\ bfs.ret[1].code = "NO_PATH"
    /\ \E k \in Expansions : bfs.log[k][2] = NoSuchMap
    /\ \E j, k \in Expansions :
         /\ j < k
         /\ bfs.log[j][2] \in Range(ConnectedMaps(bfs.metaGraph, bfs.log[k][2]))

(***************************************************************************)
(* Walkability: what can be reached from a node of a map by directed local *)
(* paths and valid gateways, by search over (map, node) positions and not  *)
(* by the chain and the gateway the code settles on                        *)
(***************************************************************************)
LocalWalk(mapData, fromId, toId) ==
    /\ fromId \in NodeIdSet(mapData)
    /\ toId \in NodeIdSet(mapData)
    /\ Reachable(mapData, fromId, toId)

\* the positions one gateway crossing away from the positions of S
Crossings(S) ==
    {<<g.gatewayConfig[1].targetMapId, g.gatewayConfig[1].targetNodeId>> :
        g \in UNION {{n \in Range(store[p[1]].nodes) :
                        isGatewayNode(n) /\ LocalWalk(store[p[1]], p[2], n.id)} :
                     p \in {q \in S : q[1] \in DOMAIN store}}}

RECURSIVE PositionsFrom(_)
PositionsFrom(S) ==
    IF Crossings(S) \subseteq S THEN S ELSE PositionsFrom(S \cup Crossings(S))

Walkable(r) ==
    \E p \in PositionsFrom({<<r.startMapId, r.startNodeId>>}) :
        /\ p[1] = r.endMapId
        /\ p[1] \in DOMAIN store
        /\ LocalWalk(store[p[1]], p[2], r.endNodeId)

\* C25: a request whose destination is walkable from its start succeeds
\* whenever its fetches resolve, whichever chain the search and whichever
\* gateway the earlier hops picked
C25_WalkableRequestsSucceed ==
    (Done /\ thrown # Some(FetchError) /\ Walkable(req)) => Succeeded

\* cross-check: a walkable request fails only where the code's one chain and
\* one gateway per hop end: a one-map chain fails when the only way leads
\* through other maps, a longer chain fails at a hop with NO_PATH,
\* NODE_NOT_FOUND or GATEWAY_NOT_FOUND
WalkableFailuresComeFromTheChoice ==
    (Done /\ thrown # Some(FetchError) /\ Walkable(req) /\ ~Succeeded) =>
        /\ mapChain # <<>>
        /\ thrown[1].code \in {"NO_PATH", "NODE_NOT_FOUND", "GATEWAY_NOT_FOUND"}
        /\ Len(mapChain) = 1 =>
             ~LocalWalk(store[req.startMapId], req.startNodeId, req.endNodeId)

\* the nearest gateway of the first map enters the second map at a node the
\* destination cannot be reached from, the farther gateway would have done
NearestGatewayIsADeadEnd ==
    /\ Done /\ ~Succeeded /\ Walkable(req)
    /\ Len(mapChain) = 2 /\ Len(segments) = 1
    /\ thrown[1].code = "NO_PATH"
    /\ req = Request("M1", "a", "M2", "b")

\* C26: every id of a path findLocalPath returns names a node of the map, and
\* consecutive ids of the path are joined by an edge of the adjacency list,
\* also when the adjacency list has edges from or to ids that name no node
C26_PathsStayWithinTheNodeSet ==
    (CalledLocal /\ Returned) =>
        /\ Range(ret[1].value) \subseteq NodeIdSet(TheMap)
        /\ IsWalk(TheMap, ret[1].value)

\* cross-check: a returned path is a walk along edges from startId to endId,
\* and its ids are nodes, edge sources or edge targets; only its endpoints
\* are tested against the node set (when they differ)
ReturnedPathsAreWalks ==
    (CalledLocal /\ Returned) =>
        /\ IsWalk(TheMap, ret[1].value)
        /\ ret[1].value[1] = args[1]
        /\ ret[1].value[Len(ret[1].value)] = args[2]
        /\ args[1] # args[2] => {args[1], args[2]} \subseteq NodeIdSet(TheMap)

\* a path between two nodes that leads over an id naming no node
PathOverAnUnknownId ==
    /\ CalledLocal /\ Returned
    /\ args[1] # args[2]
    /\ \E k \in 2..Len(ret[1].value) - 1 : ret[1].value[k] \notin NodeIdSet(TheMap)

(***************************************************************************)
(* SpecStale: one generateNavigationPath request while an editor saves and *)
(* deletes maps.  writes counts the editor's writes and keeps what the     *)
(* request was handed: the collection getAllMaps resolved to and the maps  *)
(* getMap resolved to, hop by hop.                                         *)
(***************************************************************************)
MaxWrites == 2

StaleLayouts(id) ==
    {m \in Layouts(id) :
        \/ m.adjacencyList \in {AdjFork, EmptyAdjacency}
        \/ m.adjacencyList = AdjLine /\ m.nodes[2].type = "ROOM"}

StaleRequests ==
    {Request("M1", "a", "M3", "a"), Request("M1", "a", "M2", "b"),
     Request("M2", "a", "M1", "c"), Request("M1", "a", "M1", "c"),
     Request("M3", "b", "M2", "c")}

InitStale ==
    /\ \E m1 \in StaleLayouts("M1"), m2 \in StaleLayouts("M2"),
          m3 \in StaleLayouts("M3") :
         store = ("M1" :> m1) @@ ("M2" :> m2) @@ ("M3" :> m3)
    /\ LibIdle
    /\ NavIdle
    /\ running = 0 /\ other = <<>>
    /\ writes = [n |-> 0, snapshot |-> <<>>, fetched |-> <<>>]
    /\ bfs = <<>> /\ ui = <<>> /\ cached = <<>> /\ attempts = <<>> /\ callers = <<>>

StartStale == pc = "idle" /\ \E r \in StaleRequests : StartRequest(r)

InFlight == pc \in {"awaitAllMaps", "awaitMap"}

\* saveMap: the editor replaces a map, or creates it again, while the request
\* waits for a fetch
SaveMap ==
    /\ InFlight
    /\ writes.n < MaxWrites
    /\ \E id \in MapIds : \E m \in StaleLayouts(id) :
         /\ getMap(id) # Some(m)
         /\ store' = [k \in DOMAIN store \cup {id} |-> IF k = id THEN m ELSE store[k]]
    /\ writes' = [writes EXCEPT !.n = @ + 1]
    /\ UNCHANGED <<libVars, navVars, running, other, bfs, ui, cached, attempts,
                   callers>>

\* deleteMap: the editor removes a map while the request waits for a fetch
DeleteMap ==
    /\ InFlight
    /\ writes.n < MaxWrites
    /\ \E id \in DOMAIN store :
         store' = [k \in DOMAIN store \ {id} |-> store[k]]
    /\ writes' = [writes EXCEPT !.n = @ + 1]
    /\ UNCHANGED <<libVars, navVars, running, other, bfs, ui, cached, attempts,
                   callers>>

\* getAllMaps resolves with the collection as it is now
StaleAllMapsResolve ==
    /\ pc = "awaitAllMaps"
    /\ AfterChain(findMapChain(req.startMapId, req.endMapId, AllMapsOf(store)))
    /\ writes' = [writes EXCEPT !.snapshot = store]
    /\ UNCHANGED <<store, libVars, req, segments, running, other, bfs, ui, cached,
                   attempts, callers>>

\* mutant of MapOfHop: the map of the collection getAllMaps resolved to
MapOfHop_FromSnapshot(currentMapId) ==
    IF currentMapId \in DOMAIN writes.snapshot
    THEN Some(writes.snapshot[currentMapId]) ELSE None

\* const currentMap = await getMap(currentMapId)
MapOfHop(currentMapId) == getMap(currentMapId)

\* getMap resolves with the map as it is now, or null
StaleMapResolve ==
    /\ pc = "awaitMap"
    /\ AfterHop(HopBody(MapOfHop(mapChain[hop]), mapChain, hop, entry, req.endNodeId))
    /\ writes' = [writes EXCEPT !.fetched = Append(@, getMap(mapChain[hop]))]
    /\ UNCHANGED <<store, libVars, req, mapChain, running, other, bfs, ui, cached,
                   attempts, callers>>

NextStale ==
    \/ StartStale
    \/ SaveMap
    \/ DeleteMap
    \/ StaleAllMapsResolve
    \/ AllMapsReject
    \/ StaleMapResolve
    \/ MapReject

SpecStale == InitStale /\ [][NextStale]_vars

\* segment k of a result lies in the map getMap resolved to at hop k: its path
\* walks that map's edges, and its transition target is the descriptor of a
\* valid gateway of that map at which the path ends
SegmentFitsFetched(seg, fetched, isLast) ==
    /\ fetched # None
    /\ seg.mapId = fetched[1].id
    /\ seg.pathNodeIds # <<>>
    /\ IsWalk(fetched[1], seg.pathNodeIds)
    /\ isLast => seg.transitionTarget = None
    /\ ~isLast =>
         \E n \in Range(fetched[1].nodes) :
            /\ isGatewayNode(n)
            /\ n.id = Last(seg.pathNodeIds)
            /\ seg.transitionTarget = TransitionTarget(n.gatewayConfig[1])

StructuredFailure ==
    /\ ~result[1].success
    /\ result[1].segments = <<>>
    /\ result[1].totalMaps = 0
    /\ result[1].totalNodes = 0
    /\ result[1].error # None

ConsistentSuccess ==
    LET segs == result[1].segments
    IN /\ Len(segs) >= 1
       /\ Len(segs) = Len(writes.fetched)
       /\ segs[1].mapId = req.startMapId
       /\ segs[1].pathNodeIds[1] = req.startNodeId
       /\ Last(segs).mapId = req.endMapId
       /\ Last(Last(segs).pathNodeIds) = req.endNodeId
       /\ \A i \in 1..Len(segs) :
            SegmentFitsFetched(segs[i], writes.fetched[i], i = Len(segs))
       /\ \A i \in 1..Len(segs) - 1 :
            /\ segs[i].transitionTarget[1].mapId = segs[i + 1].mapId
            /\ segs[i + 1].pathNodeIds[1] = segs[i].transitionTarget[1].nodeId

\* C27: when an editor changes maps between getAllMaps and the later getMap
\* calls of a request, the request ends with a structured failure or with a
\* successful result whose segments are continuous, start and end where
\* requested, close with a segment without transition, and fit the maps
\* getMap actually resolved to
C27_StaleChainYieldsFailureOrConsistentRoute ==
    Done =>
        /\ result # None
        /\ escaped = None
        /\ IF result[1].success THEN ConsistentSuccess ELSE StructuredFailure

\* a route over several maps succeeded although a map it crosses was fetched
\* in another version than the one the chain was computed on
C27_Witness ==
    /\ Succeeded
    /\ Len(segments) >= 2
    /\ writes.n >= 1
    /\ \E k \in 1..Len(writes.fetched) :
         writes.fetched[k] # Some(writes.snapshot[mapChain[k]])

(***************************************************************************)
(* SpecUI: the status machine of the IndoorNavigation component.  ui holds *)
(* the component's state (status, navigationResult as the path lengths of  *)
(* its segments, currentSegmentIndex counted from 1, currentMapData as the *)
(* <<props, segment>> it was fetched for), the number of the props it was  *)
(* last rendered with, and the fetches under way.  Every map has an image  *)
(* (isReady), and maps of different segments share no node id.             *)
(***************************************************************************)
MaxProps == 2

\* navigationResult.segments of a successful result, as path lengths
UiRoutes ==
    UNION {[1..n -> {1, 2}] : n \in 1..MaxSegments}

InitUI ==
    /\ store = <<>>
    /\ LibIdle
    /\ NavIdle
    /\ running = 0 /\ other = <<>> /\ writes = 0 /\ bfs = <<>>
    /\ ui = [status |-> "IDLE", props |-> 0, route |-> None, index |-> 1,
             map |-> None, fetches |-> {}]
    /\ cached = <<>> /\ attempts = <<>> /\ callers = <<>>

UiUnchanged ==
    UNCHANGED <<store, libVars, navVars, running, other, writes, bfs, cached,
                attempts, callers>>

Fetch(kind, segment) ==
    [kind |-> kind, props |-> ui.props, segment |-> segment]

\* the effect of lines 313-368 runs (mount, or one of the props changed): the
\* previous run's cleanup sets its `cancelled`, initNavigation starts
PropsChange ==
    /\ ui.props < MaxProps
    /\ ui' = [ui EXCEPT !.props = @ + 1, !.status = "LOADING", !.index = 1,
                        !.fetches = @ \cup {[kind |-> "generate", props |-> ui.props + 1,
                                             segment |-> 1]}]
    /\ UiUnchanged

\* `cancelled` of the initNavigation run a fetch belongs to
Cancelled(f) == f.props # ui.props

\* await generateNavigationPath(...) of initNavigation settles
GenerateSettles ==
    /\ \E f \in ui.fetches :
         /\ f.kind = "generate"
         /\ \/ /\ Cancelled(f)
               /\ ui' = [ui EXCEPT !.fetches = @ \ {f}]
            \/ /\ ~Cancelled(f)
               /\ ui' = [ui EXCEPT !.status = "ERROR", !.fetches = @ \ {f}]
            \/ /\ ~Cancelled(f)
               /\ \E segs \in UiRoutes :
                    ui' = [ui EXCEPT !.route = Some([props |-> f.props, lengths |-> segs]),
                                     !.fetches = (@ \ {f}) \cup {Fetch("first", 1)}]
    /\ UiUnchanged

\* what a getMap promise settles with: a map, null, or a rejection
Settlements == {"map", "null", "rejected"}

\* await getMap(result.segments[0].mapId) of initNavigation settles
FirstMapSettles ==
    /\ \E f \in ui.fetches, how \in Settlements :
         /\ f.kind = "first"
         /\ ui' = IF Cancelled(f) THEN [ui EXCEPT !.fetches = @ \ {f}]
                  ELSE IF how = "map"
                  THEN [ui EXCEPT !.map = Some(<<f.props, 1>>), !.status = "NAVIGATING",
                                  !.fetches = @ \ {f}]
                  ELSE [ui EXCEPT !.status = "ERROR", !.fetches = @ \ {f}]
    /\ UiUnchanged

\* await getMap(nextSegment.mapId) of handleContinueToNextMap settles
NextMapSettles ==
    /\ \E f \in ui.fetches, how \in Settlements :
         /\ f.kind = "continue"
         /\ ui' = IF how = "map"
                  THEN [ui EXCEPT !.map = Some(<<f.props, f.segment>>),
                                  !.index = f.segment, !.status = "NAVIGATING",
                                  !.fetches = @ \ {f}]
                  ELSE [ui EXCEPT !.status = "ERROR", !.fetches = @ \ {f}]
    /\ UiUnchanged

\* getMap(...).then((map) => { if (map) ... }) of handleRestart settles
RestartMapSettles ==
    /\ \E f \in ui.fetches, how \in Settlements :
         /\ f.kind = "restart"
         /\ ui' = IF how = "map"
                  THEN [ui EXCEPT !.map = Some(<<f.props, 1>>), !.status = "NAVIGATING",
                                  !.fetches = @ \ {f}]
                  ELSE [ui EXCEPT !.fetches = @ \ {f}]
    /\ UiUnchanged

\* pathPixelCoords.length: the ids of the current segment's path that name a
\* node of currentMapData
PathPixelCoords ==
    IF ui.route = None \/ ui.map = None THEN 0
    ELSE IF ui.index \notin DOMAIN ui.route[1].lengths THEN 0
    ELSE IF ui.map[1] = <<ui.route[1].props, ui.index>>
    THEN ui.route[1].lengths[ui.index]
    ELSE 0

\* the animation effect of lines 371-406 starts the walk
AnimationRuns == ui.status = "NAVIGATING" /\ PathPixelCoords >= 2

\* the last frame of the walk: handleSegmentComplete
SegmentCompletes ==
    /\ AnimationRuns
    /\ ui' = [ui EXCEPT !.status = IF ui.index = Len(ui.route[1].lengths)
                                   THEN "COMPLETED" ELSE "WAITING_AT_GATEWAY"]
    /\ UiUnchanged

\* the user presses "Continue to ...": handleContinueToNextMap
PressContinue ==
    /\ ui.status = "WAITING_AT_GATEWAY"
    /\ ui.route # None
    /\ ui.index + 1 \in DOMAIN ui.route[1].lengths
    /\ ui' = [ui EXCEPT !.status = "LOADING",
                        !.fetches = @ \cup {Fetch("continue", ui.index + 1)}]
    /\ UiUnchanged

\* the user presses "Restart Navigation": handleRestart
PressRestart ==
    /\ ui.status = "COMPLETED"
    /\ ui' = [ui EXCEPT !.status = "LOADING", !.index = 1,
                        !.fetches = IF ui.route = None THEN @
                                    ELSE @ \cup {Fetch("restart", 1)}]
    /\ UiUnchanged

NextUI ==
    \/ PropsChange
    \/ GenerateSettles
    \/ FirstMapSettles
    \/ NextMapSettles
    \/ RestartMapSettles
    \/ SegmentCompletes
    \/ PressContinue
    \/ PressRestart

\* promises settle, animation frames fire, and the user of the claims presses
\* the buttons offered
SpecUI ==
    /\ InitUI
    /\ [][NextUI]_vars
    /\ WF_vars(GenerateSettles) /\ WF_vars(FirstMapSettles)
    /\ WF_vars(NextMapSettles) /\ WF_vars(RestartMapSettles)
    /\ WF_vars(SegmentCompletes) /\ WF_vars(PressContinue)

\* a successful route is on screen: the map of its current segment is the
\* one loaded
RouteLoaded ==
    /\ ui.status = "NAVIGATING"
    /\ ui.route # None /\ ui.index \in DOMAIN ui.route[1].lengths
    /\ ui.map = Some(<<ui.route[1].props, ui.index>>)

\* C28: once a successful route is loaded (status NAVIGATING) the status
\* eventually becomes COMPLETED when every getMap succeeds and the user
\* continues at every gateway, also for routes with a single-node segment.
\* NAVIGATING is left only by the last frame of the walk, so the claim needs
\* the walk to be under way whenever a route is loaded; stated in that form
C28_LoadedRouteWalksOn == RouteLoaded => AnimationRuns

\* cross-check: the walk is missing exactly on single-node segments
WalkMissingOnlyOnSingleNodeSegments ==
    RouteLoaded => (AnimationRuns <=> ui.route[1].lengths[ui.index] >= 2)

\* cross-check, under the fairness of SpecUI: a loaded route whose segments
\* all have two nodes or more leaves NAVIGATING (the props having changed
\* for the last time and no fetch being under way)
LongSegmentsLeaveNavigating ==
    (/\ RouteLoaded
     /\ \A k \in DOMAIN ui.route[1].lengths : ui.route[1].lengths[k] >= 2
     /\ ui.props = MaxProps
     /\ ui.fetches = {})
        ~> (ui.status # "NAVIGATING")

\* the state the claim fails in: nothing is pending, no walk, no button
StuckInNavigating ==
    /\ RouteLoaded
    /\ ui.fetches = {}
    /\ ui.props = MaxProps
    /\ ~ENABLED NextUI

LiveFetches ==
    {f \in ui.fetches : ~(f.kind \in {"generate", "first"} /\ Cancelled(f))}

\* while LOADING, a fetch is under way whose settling decides the status
LoadingHasALiveFetch == ui.status = "LOADING" => LiveFetches # {}

\* a step that settles a fetch started under earlier props leaves the status
SupersededFetchesAreSilent ==
    [][(\E f \in ui.fetches : f \notin ui'.fetches /\ f.props # ui.props)
         => ui'.status = ui.status]_vars

\* C29: every entry into LOADING (initial load, continue, restart) is followed
\* by NAVIGATING or ERROR once the pending fetch has settled, whether getMap
\* gave a map, null or a rejection -- so LOADING never remains with nothing
\* pending -- and a fetch started for superseded props never changes the
\* status after the props changed
C29_LoadingEndsAndStaleFetchesAreSilent ==
    /\ [](ui.status = "LOADING" => LiveFetches # {})
    /\ [][(\E f \in ui.fetches : f \notin ui'.fetches /\ f.props # ui.props)
            => ui'.status = ui.status]_vars

\* cross-check: initNavigation alone keeps both halves of C29
InitialLoadOnly ==
    \A f \in ui.fetches : f.kind \in {"generate", "first"}
InitNavigationIsSafe ==
    [][(InitialLoadOnly /\ \E f \in ui.fetches : f \notin ui'.fetches /\ f.props # ui.props)
         => ui'.status = ui.status]_vars

(***************************************************************************)
(* SpecDb: dbConnect and disconnect of db.ts called concurrently.  cached  *)
(* is the module's cache { conn, promise }, a promise and a connection     *)
(* being named by the number of the mongoose.connect attempt they come     *)
(* from; attempts holds the state of every attempt; callers holds the      *)
(* calls suspended at an await, in the order they were suspended, and the  *)
(* number of calls made.                                                   *)
(***************************************************************************)
MaxCalls == 5

InitDb ==
    /\ store = <<>>
    /\ LibIdle
    /\ NavIdle
    /\ running = 0 /\ other = <<>> /\ writes = 0 /\ bfs = <<>> /\ ui = <<>>
    /\ cached = [conn |-> None, promise |-> None]
    /\ attempts = <<>>
    /\ callers = [made |-> 0, waiting |-> <<>>, overlapped |-> FALSE]

DbUnchanged ==
    UNCHANGED <<store, libVars, navVars, running, other, writes, bfs, ui>>

Pending == {p \in 1..Len(attempts) : attempts[p] = "pending"}

\* dbConnect up to its await: the cached connection is returned, or the
\* cached promise is awaited, a new attempt being started when there is none
DbConnectCall ==
    /\ callers.made < MaxCalls
    /\ IF cached.conn # None
       THEN /\ callers' = [callers EXCEPT !.made = @ + 1]
            /\ UNCHANGED <<cached, attempts>>
       ELSE /\ attempts' = IF cached.promise = None
                           THEN Append(attempts, "pending") ELSE attempts
            /\ cached' = IF cached.promise = None
                         THEN [cached EXCEPT !.promise = Some(Len(attempts) + 1)]
                         ELSE cached
            /\ callers' = [callers EXCEPT
                 !.made = @ + 1,
                 !.waiting = Append(@, [kind |-> "dbConnect",
                                        awaits |-> cached'.promise[1]])]
    /\ DbUnchanged

AwaitsAttempt(c, p) == c.kind = "dbConnect" /\ c.awaits = p

\* a mongoose.connect promise settles and every dbConnect call that awaits it
\* runs on: cached.conn = (the instance), or catch { cached.promise = null }
AttemptSettles ==
    /\ \E p \in Pending, outcome \in {"fulfilled", "rejected"} :
         /\ attempts' = [attempts EXCEPT ![p] = outcome]
         /\ cached' =
              IF \A k \in 1..Len(callers.waiting) : ~AwaitsAttempt(callers.waiting[k], p)
              THEN cached
              ELSE IF outcome = "fulfilled" THEN [cached EXCEPT !.conn = Some(p)]
              ELSE [cached EXCEPT !.promise = None]
         /\ callers' = [callers EXCEPT
              !.waiting = SelectSeq(@, LAMBDA c : ~AwaitsAttempt(c, p))]
    /\ DbUnchanged

\* disconnect up to its await: nothing to do without a cached connection
DisconnectCall ==
    /\ callers.made < MaxCalls
    /\ callers' =
         IF cached.conn = None THEN [callers EXCEPT !.made = @ + 1]
         ELSE [callers EXCEPT
                 !.made = @ + 1,
                 !.waiting = Append(@, [kind |-> "disconnect", awaits |-> 0]),
                 !.overlapped = @ \/ \E k \in 1..Len(callers.waiting) :
                                        callers.waiting[k].kind = "disconnect"]
    /\ UNCHANGED <<cached, attempts>>
    /\ DbUnchanged

\* await mongoose.disconnect() of one call resolves: both fields are cleared
DisconnectCompletes ==
    /\ \E k \in 1..Len(callers.waiting) :
         /\ callers.waiting[k].kind = "disconnect"
         /\ callers' = [callers EXCEPT
              !.waiting = SubSeq(@, 1, k - 1) \o SubSeq(@, k + 1, Len(@))]
    /\ cached' = [conn |-> None, promise |-> None]
    /\ UNCHANGED attempts
    /\ DbUnchanged

NextDb == DbConnectCall \/ AttemptSettles \/ DisconnectCall \/ DisconnectCompletes

SpecDb == InitDb /\ [][NextDb]_vars

AtMostOneAttemptInFlight == Cardinality(Pending) <= 1

FailedAttemptIsNotCached ==
    cached.promise # None => attempts[cached.promise[1]] # "rejected"

ConnIsASuccessfulAttempt ==
    cached.conn # None => attempts[cached.conn[1]] = "fulfilled"

\* C30: however dbConnect and disconnect calls interleave, at most one
\* mongoose.connect attempt is in flight (callers that arrive meanwhile
\* share it), a failed attempt does not stay cached, and cached.conn is
\* non-null only after a successful attempt
C30_OneConnectAttemptAtATime ==
    /\ AtMostOneAttemptInFlight
    /\ FailedAttemptIsNotCached
    /\ ConnIsASuccessfulAttempt

\* cross-check: the two other parts of the claim hold, and cached.conn is
\* null right after a disconnect completes
CacheFieldsAreSound == FailedAttemptIsNotCached /\ ConnIsASuccessfulAttempt

\* cross-check: a second attempt starts only after two disconnect calls
\* were under way at the same time
TwoAttemptsNeedOverlappingDisconnects ==
    AtMostOneAttemptInFlight \/ callers.overlapped

====
